---------------------------- MODULE Spec2Model ----------------------------
(***************************************************************************)
(* Model of the light client of dedis/dynasent (cothority TypeScript).     *)
(*                                                                         *)
(* Part 1: the trust-chain and inclusion proof verifier,                   *)
(*         src/src/lib/cothority/byzcoin/proof.ts                          *)
(*         (Proof.verify, Proof.exists, Proof.getVerifiedInstance).        *)
(*         A Proof is a value object; its methods are pure.  SpecProof     *)
(*         draws a proof and the call arguments from bounded sets and has  *)
(*         one action per public method, recording the method's outcome.   *)
(* Part 2: the transaction builder and signer,                             *)
(*         src/src/lib/cothority/byzcoin/instance.ts                       *)
(*         (Instruction.hash, deriveId, ClientTransaction.hash, signWith,  *)
(*         updateCounters, updateCountersAndSign): SpecHash and SpecTx.    *)
(* Part 3: two callers allocating counters against one ledger:             *)
(*         SpecCallers.                                                    *)
(* Part 4: the ledger client, src/src/lib/cothority/byzcoin/byzcoin-rpc.ts *)
(*         (ByzCoinRPC): SpecRpc, SpecSend for progress, and SpecBoot for  *)
(*         ByzCoinRPC.fromByzcoin.                                         *)
(* Part 5: identities and rules, src/src/lib/cothority/darc/rules.ts and   *)
(*         src/unnamed/part_000 (IdentityDarc, attachAndEvolve):           *)
(*         SpecRules and SpecDarc.                                         *)
(* Part 6: users, src/unnamed/part_000 (Data.createUser): SpecUsers.       *)
(* Part 7: CoinInstance.spawn, src/unnamed/part_001: SpecSpawn.            *)
(* Part 8: the release of a secret, src/unnamed/part_002 (createWrite,     *)
(*         DecodeKey): SpecCalypso.                                        *)
(* Part 9: PopPartyInstance, byzcoin-rpc.ts 520-755: SpecParty.            *)
(* Part 10: the recovery signatures of Data, src/unnamed/part_000          *)
(*         (recoveryStore, recoveryUser): SpecRecovery.                    *)
(* Part 11: what a signature is bound to (Instruction.hash): SpecSigned.   *)
(* Part 12: how Proof.verify reports a failure (SpecProof).                *)
(* Part 13: a list of rules and its clone, rules.ts: SpecClone.            *)
(* Part 14: counters, identities and signatures of a signed instruction    *)
(*         (SpecTx).                                                       *)
(*                                                                         *)
(* Every specification is over the same variables; the variables of the   *)
(* parts a specification does not exercise keep their initial values.      *)
(***************************************************************************)
EXTENDS Integers, Sequences, FiniteSets, TLC

VARIABLES
    proof,        \* the Proof object: [inclusionproof, latest, links]
    genesisID,    \* argument of verify / getVerifiedInstance
    key,          \* argument of exists
    contractID,   \* argument of getVerifiedInstance
    op,           \* which method has been called ("none" before the call)
    result,       \* the outcome of that call
    instructions, \* ClientTransaction.instructions
    signers,      \* the caller's array of signer groups (Signer[][])
    args,         \* the other arguments of the last call
    counters,     \* the ledger's signer counters, by identity
    requests,     \* the requests sent over the connection, in order
    callers,      \* concurrent callers: position and transaction of each
    rpc,          \* the ByzCoinRPC object: [genesis, config, genesisDarc]
    ledger,       \* the chain as the servers hold it
    darcs,        \* the version history of an access-control object
    users,        \* the users (Data objects) and what they stored
    party         \* a PopPartyInstance: [struct, tmpAttendees]

proofVars == <<proof, genesisID, key, contractID>>
txVars == <<instructions, signers, args, counters, requests>>
appVars == <<darcs, users, party>>
restVars == <<callers, rpc, ledger, appVars>>

vars == <<proofVars, op, result, txVars, restVars>>

\* No proof has been received
ProofUnused ==
    /\ proof = <<>>
    /\ genesisID = 0
    /\ key = <<>>
    /\ contractID = ""

\* No transaction is being built
TxUnused ==
    /\ instructions = <<>>
    /\ signers = <<>>
    /\ args = <<>>
    /\ counters = <<>>
    /\ requests = <<>>

\* No access-control object, no user
AppUnused ==
    /\ darcs = <<>>
    /\ users = <<>>
    /\ party = <<>>

\* No concurrent caller, no ledger client
RestUnused ==
    /\ callers = <<>>
    /\ rpc = <<>>
    /\ ledger = <<>>
    /\ AppUnused

(***************************************************************************)
(* Bounds                                                                  *)
(***************************************************************************)
\* Largest number of forward links in a proof (links[0] included).
MaxLinks == 3

(***************************************************************************)
(* Buffers and hashes                                                      *)
(*                                                                         *)
(* A Buffer is a sequence of bytes.  A sha256 digest of a node of the trie *)
(* is modelled as a collision-free hash: the tagged tuple of what was fed  *)
(* to the hash, so two digests are equal exactly when the hashed data are. *)
(* Block hashes (SkipBlock.hash, ForwardLink.from/to, the genesis ID) are  *)
(* small integers.                                                         *)
(***************************************************************************)
Sha256(parts) == <<"sha256", parts>>

\* A 32-byte value that is the digest of nothing the model builds.
RawHash(n) == <<"raw", n>>

Rosters == {"R1", "R2"}
NoRoster == "none"
BlockIDs == {0, 1, 2}

(***************************************************************************)
(* Outcomes                                                                *)
(***************************************************************************)
Returned(v) == [kind |-> "return", value |-> v]
Thrown(msg) == [kind |-> "throw", value |-> msg]
Resolved(v) == [kind |-> "resolve", value |-> v]
Rejected(msg) == [kind |-> "reject", value |-> msg]

\* verify's null
Null == "null"
ErrLatest == "invalid latest block"
ErrRoot == "invalid root"
ErrGenesis == "first link must come from the genesis block"
ErrSignature == "invalid forward link signature"
ErrChain == "invalid chain of forward links"
ErrLast == "last forward link does not point to the latest block"
\* reading a property of undefined (links[0] of an empty list, interiors[0])
TypeError == "TypeError"

(***************************************************************************)
(* Collaborators of Proof that live in ../skipchain and ./proto            *)
(***************************************************************************)
\* SkipBlock.computeHash(): the digest of the block's header fields.  The
\* header content is abstracted to the digest it hashes to (field header);
\* the stored field hash may or may not be equal to it.
ComputeHash(block) == block.header

\* DataHeader.decode(latest.data).trieRoot
DecodeTrieRoot(block) == block.trieRoot

\* Roster.getServicePublics(serviceName): the roster's service keys, which
\* are determined by the roster.
GetServicePublics(roster) == roster

\* ForwardLink.verify(publics): null when the link's signature is a valid
\* collective signature by the holders of publics, an Error otherwise.  The
\* signature is abstracted to the roster whose keys it verifies under
\* ("bad": under none).
LinkVerify(link, publics) == IF link.signature = publics THEN Null ELSE "err"

(***************************************************************************)
(* InclusionProof                                                          *)
(***************************************************************************)
\* boolToBuffer(bits): the bits packed into bytes, first bit in the high
\* bit of the first byte: buf[i >> 3] |= (1 << 7) >> (i % 8)
BitWeight(i) == 128 \div (2 ^ (i % 8))

RECURSIVE ByteOf(_, _, _)
ByteOf(bits, b, i) ==
    IF i >= Len(bits) \/ i >= 8 * (b + 1)
    THEN 0
    ELSE (IF bits[i + 1] THEN BitWeight(i) ELSE 0) + ByteOf(bits, b, i + 1)

BoolToBuffer(bits) ==
    [b \in 1 .. ((Len(bits) + 7) \div 8) |-> ByteOf(bits, b - 1, 8 * (b - 1))]

\* Buffer.writeIntLE(n, 0, 4): n on 4 bytes, little endian
WriteIntLE4(n) ==
    <<n % 256, (n \div 256) % 256, (n \div 65536) % 256, (n \div 16777216) % 256>>

\* InclusionProof.hashInterior(index); index is 0-based as in the source
HashInterior(ip, index) ==
    Sha256(<<ip.interiors[index + 1].left, ip.interiors[index + 1].right>>)

\* InclusionProof.hashLeaf()
HashLeaf(ip) ==
    Sha256(<<3, ip.nonce, BoolToBuffer(ip.leaf.prefix),
             WriteIntLE4(Len(ip.leaf.prefix)), ip.leaf.key, ip.leaf.value>>)

\* InclusionProof.hashEmpty()
HashEmpty(ip) ==
    Sha256(<<2, ip.nonce, BoolToBuffer(ip.empty.prefix),
             WriteIntLE4(Len(ip.empty.prefix))>>)

(***************************************************************************)
(* hashToBits                                                              *)
(***************************************************************************)
\* createHash('sha256').update(key).digest(), cut to its first byte: the
\* actual first byte of the SHA-256 digest of each key the model uses.
KeyDigest(k) ==
    CASE k = <<>> -> <<227>>
      [] k = <<1>> -> <<75>>
      [] k = <<2>> -> <<219>>
      [] k = <<3>> -> <<8>>
      [] k = <<6>> -> <<103>>
      [] OTHER -> <<0>>   \* an instance id that is itself a digest: the
                          \* model takes the ids whose digest starts 0x00

\* bits[i] = ((hash[i >> 3] << (i % 8)) & (1 << 7)) > 0, i 0-based
HashToBits(k) ==
    LET hash == KeyDigest(k) IN
    [i \in 1 .. (Len(hash) * 8) |->
        (((hash[((i - 1) \div 8) + 1] * (2 ^ ((i - 1) % 8))) \div 128) % 2) = 1]

\* bits[i] of a JavaScript array, i 0-based: undefined (falsy) past the end
BitAt(bits, i) == IF i < Len(bits) THEN bits[i + 1] ELSE FALSE

\* bits.slice(0, n)
Slice0(bits, n) == SubSeq(bits, 1, IF n < Len(bits) THEN n ELSE Len(bits))

\* _.difference(array, values): the elements of array that values does not
\* include, in order
Difference(array, values) ==
    SelectSeq(array, LAMBDA x : \A j \in 1 .. Len(values) : values[j] # x)

(***************************************************************************)
(* Proof.verify                                                            *)
(***************************************************************************)
\* !this.latest.computeHash().equals(this.latest.hash)
LatestInvalid(p) == ComputeHash(p.latest) # p.latest.hash

\* (the root of the inclusion proof is not compared with the block)
RootInvalidUnchecked(p) == FALSE

\* !this.inclusionproof.hashInterior(0).equals(header.trieRoot)
RootInvalid(p) == HashInterior(p.inclusionproof, 0) # DecodeTrieRoot(p.latest)

\* (the first link is read by its origin)
FirstPrevFrom(p) == p.links[1].from

\* let prev = this.links[0].to
FirstPrev(p) == p.links[1].to

\* (the result of link.verify is dropped)
SignatureInvalidIgnored(link, publics) == FALSE

\* const err = link.verify(publics); if (err) ...
SignatureInvalid(link, publics) == LinkVerify(link, publics) # Null

\* (the link is compared with itself instead of the previous one)
ChainBrokenSelf(link, prev) == link.from # link.from

\* !link.from.equals(prev)
ChainBroken(link, prev) == link.from # prev

\* (the trusted keys are never replaced)
NextPublicsKept(link, publics) == publics

\* if (link.newRoster) { publics = link.newRoster.getServicePublics(...) }
NextPublics(link, publics) ==
    IF link.newRoster # NoRoster
    THEN GetServicePublics(link.newRoster)
    ELSE publics

\* !prev.equals(this.latest.hash)
LastMismatch(p, prev) == prev # p.latest.hash

\* The loop of verify over links[i..], i 0-based as in the source; it yields
\* the error of the first failing link or the final value of prev.
RECURSIVE VerifyLinks(_, _, _, _)
VerifyLinks(links, i, prev, publics) ==
    IF ~(i < Len(links))
    THEN [err |-> Null, prev |-> prev]
    ELSE LET link == links[i + 1] IN
         IF SignatureInvalid(link, publics)
         THEN [err |-> ErrSignature, prev |-> prev]
         ELSE IF ChainBroken(link, prev)
         THEN [err |-> ErrChain, prev |-> prev]
         ELSE VerifyLinks(links, i + 1, link.to, NextPublics(link, publics))

\* hashInterior(0) and links[0].to read a property of undefined, and throw a
\* TypeError, when the list is empty.
Verify(p, gid) ==
    IF LatestInvalid(p)
    THEN Returned(ErrLatest)
    ELSE IF Len(p.inclusionproof.interiors) = 0
    THEN Thrown(TypeError)
    ELSE IF RootInvalid(p)
    THEN Returned(ErrRoot)
    ELSE IF Len(p.links) = 0
    THEN Thrown(TypeError)
    ELSE LET publics == GetServicePublics(p.latest.roster)
             prev == FirstPrev(p)
         IN IF prev # gid
            THEN Returned(ErrGenesis)
            ELSE LET r == VerifyLinks(p.links, 1, prev, publics) IN
                 IF r.err # Null
                 THEN Returned(r.err)
                 ELSE IF LastMismatch(p, r.prev)
                 THEN Returned(ErrLast)
                 ELSE Returned(Null)

(***************************************************************************)
(* Proof.exists                                                            *)
(***************************************************************************)
ErrKeyNil == "key is nil"
ErrNoInterior == "no interior node"
ErrInterior == "invalid interior node"
ErrLeafPrefix == "invalid prefix in leaf node"
ErrEmptyPrefix == "invalid prefix in empty node"
ErrNoNode == "no corresponding leaf/empty node with respect to the interior node"

\* (left and right swapped)
ChildOfSwapped(node, bit) == IF bit THEN node.right ELSE node.left

\* if (bits[i]) { expectedHash = interiors[i].left } else { ... .right }
ChildOf(node, bit) == IF bit THEN node.left ELSE node.right

\* (a matching leaf is taken as a proof of presence of any key)
LeafKeyAny(ip, k) == TRUE

\* this.key.equals(key): this.key is the key of the leaf
LeafKeyEquals(ip, k) == ip.leaf.key = k

\* expectedHash.equals(this.inclusionproof.hashLeaf())
MatchesLeaf(ip, expectedHash) == expectedHash = HashLeaf(ip)

\* (a plain else: absence is inferred when no leaf matches)
MatchesEmptyAlways(ip, expectedHash) == TRUE

\* expectedHash.equals(this.inclusionproof.hashEmpty())
MatchesEmpty(ip, expectedHash) == expectedHash = HashEmpty(ip)

\* The loop of exists from depth i (0-based): the expected hash after the
\* last interior node, or the error of the first interior node that does
\* not hash to the expected hash.
RECURSIVE ExistsWalk(_, _, _, _)
ExistsWalk(ip, bits, i, expectedHash) ==
    IF ~(i < Len(ip.interiors))
    THEN [err |-> Null, expectedHash |-> expectedHash]
    ELSE IF expectedHash # HashInterior(ip, i)
    THEN [err |-> ErrInterior, expectedHash |-> expectedHash]
    ELSE ExistsWalk(ip, bits, i + 1, ChildOf(ip.interiors[i + 1], BitAt(bits, i)))

\* The prefix check of exists on the terminating node
PrefixMismatch(bits, i, prefix) == Len(Difference(Slice0(bits, i), prefix)) # 0

\* (an empty key is looked up like any other)
KeyIsNilNever(k) == FALSE

\* key.length === 0
KeyIsNil(k) == Len(k) = 0

Exists(p, k) ==
    LET ip == p.inclusionproof IN
    IF KeyIsNil(k)
    THEN Thrown(ErrKeyNil)
    ELSE IF Len(ip.interiors) = 0
    THEN Thrown(ErrNoInterior)
    ELSE LET bits == HashToBits(k)
             w == ExistsWalk(ip, bits, 0, HashInterior(ip, 0))
             i == Len(ip.interiors)
         IN IF w.err # Null
            THEN Thrown(w.err)
            ELSE IF MatchesLeaf(ip, w.expectedHash)
            THEN IF PrefixMismatch(bits, i, ip.leaf.prefix)
                 THEN Thrown(ErrLeafPrefix)
                 ELSE Returned(LeafKeyEquals(ip, k))
            ELSE IF MatchesEmpty(ip, w.expectedHash)
            THEN IF PrefixMismatch(bits, i, ip.empty.prefix)
                 THEN Thrown(ErrEmptyPrefix)
                 ELSE Returned(FALSE)
            ELSE Thrown(ErrNoNode)

(***************************************************************************)
(* Proof.getVerifiedInstance                                               *)
(***************************************************************************)
ErrAbsence == "cannot return an Instance from a proof of absence"
ErrContract == "not of correct contractID"

\* StateChangeBody.decode(inclusionproof.value): the leaf's value is the
\* encoding of a state change body, abstracted to the decoded fields.
StateChangeBody(p) == p.inclusionproof.leaf.value

\* (the contract kind is not compared)
ContractMismatchUnchecked(p, cid) == FALSE

\* this.contractID !== contractID
ContractMismatch(p, cid) == StateChangeBody(p).contractid # cid

\* Instance.fromFields(id, contractID, darcID, data)
InstanceFromFields(id, contract, darc, data) ==
    [id |-> id, contractID |-> contract, darcID |-> darc, data |-> data]

\* An async function: an exception thrown in its body rejects the promise.
GetVerifiedInstance(p, gid, cid) ==
    LET err == Verify(p, gid) IN
    IF err.kind = "throw"
    THEN Rejected(err.value)
    ELSE IF err.value # Null
    THEN Rejected(err.value)
    ELSE LET e == Exists(p, p.inclusionproof.leaf.key) IN
         IF e.kind = "throw"
         THEN Rejected(e.value)
         ELSE IF ~e.value
         THEN Rejected(ErrAbsence)
         ELSE IF ContractMismatch(p, cid)
         THEN Rejected(ErrContract)
         ELSE Resolved(InstanceFromFields(p.inclusionproof.leaf.key,
                                          StateChangeBody(p).contractid,
                                          StateChangeBody(p).darcid,
                                          StateChangeBody(p).value))

(***************************************************************************)
(* The ledger side: the trie a correct server holds and the inclusion     *)
(* proofs it generates (data model of the InclusionProof: a root-to-leaf   *)
(* path in a binary trie keyed by the bits of sha256(key), ended by a leaf *)
(* node or an empty node whose prefix is the path walked).                 *)
(***************************************************************************)
\* Longest prefix a forged terminating node may declare.
MaxPrefix == 2

\* Instance IDs that may be stored in the global state, and keys a caller
\* may ask about (<<>> is the empty buffer).
StoredKeys == {<<1>>, <<2>>, <<3>>, <<6>>}
QueryKeys == StoredKeys \cup {<<>>}
Contracts == {"coin", "darc"}
Nonce == <<9>>

\* The state change body stored under a key
ValueOf(k) ==
    [contractid |-> IF k = <<1>> THEN "coin" ELSE "darc",
     darcid |-> <<5>>,
     value |-> k \o k]

\* LeafNode / EmptyNode as decoded when the server left them unset
NoLeaf == [prefix |-> <<>>, key |-> <<>>,
           value |-> [contractid |-> "", darcid |-> <<>>, value |-> <<>>]]
NoEmpty == [prefix |-> <<>>]

\* The keys of S below the node at prefix
SubTrie(S, prefix) ==
    {k \in S : Slice0(HashToBits(k), Len(prefix)) = prefix}

LeafAt(S, prefix) ==
    LET k == CHOOSE x \in SubTrie(S, prefix) : TRUE IN
    [prefix |-> prefix, key |-> k, value |-> ValueOf(k)]

\* The root is always an interior node; below it a node is interior when
\* more than one key lies under it.
IsInteriorAt(S, prefix) ==
    Len(prefix) = 0 \/ Cardinality(SubTrie(S, prefix)) > 1

RECURSIVE NodeHash(_, _)
NodeHash(S, prefix) ==
    IF IsInteriorAt(S, prefix)
    THEN Sha256(<<NodeHash(S, Append(prefix, TRUE)),
                  NodeHash(S, Append(prefix, FALSE))>>)
    ELSE IF SubTrie(S, prefix) = {}
    THEN HashEmpty([nonce |-> Nonce, empty |-> [prefix |-> prefix]])
    ELSE HashLeaf([nonce |-> Nonce, leaf |-> LeafAt(S, prefix)])

\* The interior nodes on the path of bits, from the node at prefix down
RECURSIVE PathInteriors(_, _, _)
PathInteriors(S, prefix, bits) ==
    IF ~IsInteriorAt(S, prefix)
    THEN <<>>
    ELSE <<[left |-> NodeHash(S, Append(prefix, TRUE)),
            right |-> NodeHash(S, Append(prefix, FALSE))]>>
         \o PathInteriors(S, Append(prefix, BitAt(bits, Len(prefix))), bits)

\* The proof a correct server generates for key k from the trie holding S
GenProof(S, k) ==
    LET bits == HashToBits(k)
        ints == PathInteriors(S, <<>>, bits)
        prefix == Slice0(bits, Len(ints))
        present == SubTrie(S, prefix) # {}
    IN [interiors |-> ints,
        leaf |-> IF present THEN LeafAt(S, prefix) ELSE NoLeaf,
        empty |-> IF present THEN NoEmpty ELSE [prefix |-> prefix],
        nonce |-> Nonce]

(***************************************************************************)
(* A dishonest server: it may declare another prefix in the terminating    *)
(* node, recompute the hashes of the path for it, overwrite one child hash *)
(* of an interior node, and fill the leaf of a proof that ends at an empty *)
(* node.                                                                   *)
(***************************************************************************)
RECURSIVE BoolSeqs(_)
BoolSeqs(n) ==
    IF n = 0
    THEN {<<>>}
    ELSE BoolSeqs(n - 1)
         \cup {Append(q, b) : q \in {x \in BoolSeqs(n - 1) : Len(x) = n - 1},
                             b \in BOOLEAN}

\* The interior nodes from depth i (0-based) with the child on the path of
\* bits recomputed bottom-up so that the last one points at termHash
RECURSIVE Rehash(_, _, _, _)
Rehash(ints, bits, i, termHash) ==
    IF ~(i < Len(ints))
    THEN <<>>
    ELSE LET rest == Rehash(ints, bits, i + 1, termHash)
             child == IF Len(rest) = 0
                      THEN termHash
                      ELSE Sha256(<<rest[1].left, rest[1].right>>)
         IN <<[left |-> IF BitAt(bits, i) THEN child ELSE ints[i + 1].left,
               right |-> IF BitAt(bits, i) THEN ints[i + 1].right ELSE child]>>
            \o rest

\* ip with the prefix of its terminating node replaced by prefix
WithPrefix(ip, prefix) ==
    IF ip.leaf = NoLeaf
    THEN [ip EXCEPT !.empty.prefix = prefix]
    ELSE [ip EXCEPT !.leaf.prefix = prefix]

TerminalHash(ip) == IF ip.leaf = NoLeaf THEN HashEmpty(ip) ELSE HashLeaf(ip)

\* tamper = [i, left]: child left/right of interior node i (1-based) is
\* overwritten; i = 0: nothing is
Tampered(ints, tamper) ==
    IF tamper.i = 0 \/ tamper.i > Len(ints)
    THEN ints
    ELSE IF tamper.left
    THEN [ints EXCEPT ![tamper.i].left = RawHash(1)]
    ELSE [ints EXCEPT ![tamper.i].right = RawHash(1)]

\* ip with a leaf for key k beside the empty node it ends at
WithStrayLeaf(ip, k, stray) ==
    IF stray /\ ip.leaf = NoLeaf
    THEN [ip EXCEPT !.leaf = [prefix |-> <<>>, key |-> k, value |-> ValueOf(k)]]
    ELSE ip

ForgedProof(S, k, prefix, rehash, tamper, stray) ==
    LET honest == GenProof(S, k)
        ip == WithPrefix(honest, prefix)
        ints == IF rehash
                THEN Rehash(honest.interiors, HashToBits(k), 0, TerminalHash(ip))
                ELSE honest.interiors
    IN WithStrayLeaf([ip EXCEPT !.interiors = Tampered(ints, tamper)], k, stray)

(***************************************************************************)
(* The proofs and arguments the specification draws                        *)
(***************************************************************************)
Signatures == Rosters \cup {"bad"}

\* Block i of a chain that starts at the genesis block 0
BlockAt(i) == i % Cardinality(BlockIDs)

\* All sequences of length 0 .. n over A
SeqsUpTo(A, n) == UNION {[1 .. m -> A] : m \in 0 .. n}

\* Links with arbitrary from and to, all signed by roster R1
ChainLinks ==
    [from : BlockIDs, to : BlockIDs, signature : {"R1"}, newRoster : {NoRoster}]

\* Forward links 0 .. n-1 along the chain of blocks 0, 1, ... with arbitrary
\* signatures and roster changes; links[0] is the link to the genesis block
RosterChains(n) ==
    {[i \in 1 .. n |->
        [from |-> IF i = 1 THEN 0 ELSE BlockAt(i - 2),
         to |-> BlockAt(i - 1),
         signature |-> sr[i][1],
         newRoster |-> sr[i][2]]] :
        sr \in [1 .. n -> Signatures \X (Rosters \cup {NoRoster})]}

\* The chain genesis -> block 1, signed by R1
GoodLinks ==
    <<[from |-> 0, to |-> 0, signature |-> "R1", newRoster |-> NoRoster],
      [from |-> 0, to |-> 1, signature |-> "R1", newRoster |-> NoRoster]>>

SmallProof == GenProof({<<1>>}, <<1>>)
NoInteriors == [SmallProof EXCEPT !.interiors = <<>>]

Root(ip) == IF Len(ip.interiors) = 0 THEN RawHash(0) ELSE HashInterior(ip, 0)

Block(hash, header, roster, trieRoot) ==
    [hash |-> hash, header |-> header, roster |-> roster, trieRoot |-> trieRoot]

\* Arbitrary chains of links to an arbitrary latest block
ChainFamily ==
    {[inclusionproof |-> SmallProof,
      latest |-> Block(h, h, "R1", Root(SmallProof)),
      links |-> ls] :
        h \in BlockIDs, ls \in SeqsUpTo(ChainLinks, MaxLinks)}

\* Chains along the blocks with arbitrary signatures and roster changes
RosterFamily ==
    {[inclusionproof |-> SmallProof,
      latest |-> Block(BlockAt(Len(ls) - 1), BlockAt(Len(ls) - 1), r,
                       Root(SmallProof)),
      links |-> ls] :
        r \in Rosters, ls \in UNION {RosterChains(n) : n \in 1 .. MaxLinks}}

\* Arbitrary latest blocks at the end of a good chain
LatestFamily ==
    {[inclusionproof |-> ip,
      latest |-> Block(h, header, "R1", root),
      links |-> ls] :
        ip \in {SmallProof, NoInteriors},
        h \in BlockIDs, header \in BlockIDs,
        root \in {Root(SmallProof), RawHash(2)},
        ls \in {GoodLinks, <<>>}}

\* Honest and forged inclusion proofs under a good chain
ForgedProofs(S, k) ==
    {ForgedProof(S, k, prefix, rehash, [i |-> i, left |-> left], stray) :
        prefix \in BoolSeqs(MaxPrefix),
        rehash \in BOOLEAN,
        i \in 0 .. Len(GenProof(S, k).interiors),
        left \in BOOLEAN,
        stray \in BOOLEAN}

InclusionProofs ==
    UNION {ForgedProofs(S, k) \cup {GenProof(S, k)} :
            S \in SUBSET StoredKeys, k \in StoredKeys}

InclusionFamily ==
    {[inclusionproof |-> ip,
      latest |-> Block(1, 1, "R1", IF goodRoot THEN Root(ip) ELSE RawHash(2)),
      links |-> GoodLinks] :
        ip \in InclusionProofs, goodRoot \in BOOLEAN}

ProofInputs == ChainFamily \cup RosterFamily \cup LatestFamily \cup InclusionFamily

(***************************************************************************)
(* SpecProof: a proof is received, then one of its methods is called with  *)
(* arguments of the caller's choice                                        *)
(***************************************************************************)
InitProof ==
    /\ proof \in ProofInputs
    /\ genesisID = 0
    /\ key = <<>>
    /\ contractID = ""
    /\ op = "none"
    /\ result = "none"
    /\ TxUnused
    /\ RestUnused

CallVerify ==
    /\ op = "none"
    /\ \E gid \in BlockIDs :
        /\ genesisID' = gid
        /\ result' = Verify(proof, gid)
    /\ op' = "verify"
    /\ UNCHANGED <<proof, key, contractID, txVars, restVars>>

CallExists ==
    /\ op = "none"
    /\ \E k \in QueryKeys :
        /\ key' = k
        /\ result' = Exists(proof, k)
    /\ op' = "exists"
    /\ UNCHANGED <<proof, genesisID, contractID, txVars, restVars>>

CallGetVerifiedInstance ==
    /\ op = "none"
    /\ \E gid \in BlockIDs, cid \in Contracts :
        /\ genesisID' = gid
        /\ contractID' = cid
        /\ result' = GetVerifiedInstance(proof, gid, cid)
    /\ op' = "getVerifiedInstance"
    /\ UNCHANGED <<proof, key, txVars, restVars>>

NextProof == CallVerify \/ CallExists \/ CallGetVerifiedInstance

SpecProof == InitProof /\ [][NextProof]_vars

(***************************************************************************)
(* Properties of Proof.verify                                              *)
(***************************************************************************)
VerifyAccepted == op = "verify" /\ result = Returned(Null)

\* The roster whose keys are trusted when links[i] (0-based, i >= 1) is
\* checked: the roster of the latest block, replaced by the newRoster of
\* every earlier link 1 .. i-1 that carries one.
RECURSIVE TrustedAt(_, _)
TrustedAt(p, i) ==
    IF i <= 1
    THEN p.latest.roster
    ELSE IF p.links[i].newRoster # NoRoster
    THEN p.links[i].newRoster
    ELSE TrustedAt(p, i - 1)

\* C1: verify returns null only if every link i >= 1 starts where link i-1
\* ends and the last link ends at the hash of the latest block.
C1_UnbrokenChain ==
    VerifyAccepted =>
        /\ \A i \in 2 .. Len(proof.links) :
            proof.links[i].from = proof.links[i - 1].to
        /\ proof.links[Len(proof.links)].to = proof.latest.hash

C1_Witness ==
    /\ VerifyAccepted
    /\ Len(proof.links) = 3
    /\ proof.links[3].to # proof.links[2].to

\* C2: verify returns an error whenever the latest block does not hash to its
\* stored hash, or the trie root of its payload differs from the hash of
\* interior node 0; an accepted proof has both equal.
C2_LatestAndRoot ==
    op = "verify" =>
        /\ ComputeHash(proof.latest) # proof.latest.hash
            => result = Returned(ErrLatest)
        /\ (/\ ComputeHash(proof.latest) = proof.latest.hash
            /\ Len(proof.inclusionproof.interiors) > 0
            /\ DecodeTrieRoot(proof.latest) # HashInterior(proof.inclusionproof, 0))
            => result = Returned(ErrRoot)
        /\ result = Returned(Null) =>
            /\ ComputeHash(proof.latest) = proof.latest.hash
            /\ DecodeTrieRoot(proof.latest) = HashInterior(proof.inclusionproof, 0)

C2_Witness ==
    /\ op = "verify"
    /\ result = Returned(ErrRoot)
    /\ Len(proof.links) > 0
    /\ proof.links[1].to = genesisID

\* C3 as stated: verify succeeds only if links[0].from equals genesisID.
C3_FirstLinkFrom ==
    VerifyAccepted => proof.links[1].from = genesisID

\* C3 amended: verify returns the 'first link' error exactly when the checks
\* of the latest block pass and links[0].to differs from genesisID; it
\* succeeds only if links[0].to equals genesisID.
C3_FirstLinkTo ==
    op = "verify" =>
        /\ result = Returned(ErrGenesis) <=>
            /\ ComputeHash(proof.latest) = proof.latest.hash
            /\ Len(proof.inclusionproof.interiors) > 0
            /\ DecodeTrieRoot(proof.latest) = HashInterior(proof.inclusionproof, 0)
            /\ Len(proof.links) > 0
            /\ proof.links[1].to # genesisID
        /\ result = Returned(Null) => proof.links[1].to = genesisID

C3_Witness ==
    /\ op = "verify"
    /\ result = Returned(ErrGenesis)
    /\ proof.links[1].from = genesisID

\* C4: in an accepted proof every link i >= 1 is signed by the roster in
\* effect after the links before it (the latest block's roster, replaced by
\* each newRoster of links 1 .. i-1), and a proof whose links chain up but
\* one of which is not signed by that roster gets the signature error.
C4_RosterInEffect ==
    op = "verify" =>
        /\ result = Returned(Null) =>
            \A i \in 2 .. Len(proof.links) :
                proof.links[i].signature = TrustedAt(proof, i - 1)
        /\ result = Returned(ErrSignature) =>
            \E i \in 2 .. Len(proof.links) :
                /\ proof.links[i].signature # TrustedAt(proof, i - 1)
                /\ \A j \in 2 .. (i - 1) :
                    proof.links[j].signature = TrustedAt(proof, j - 1)

\* link 1 changes the roster, link 1 is signed by the old one and link 2 by
\* the new one
C4_Witness ==
    /\ VerifyAccepted
    /\ Len(proof.links) = 3
    /\ proof.links[2].newRoster \notin {NoRoster, proof.latest.roster}
    /\ proof.links[2].signature = proof.latest.roster
    /\ proof.links[3].signature = proof.links[2].newRoster

\* proof with the signature of links[i] (1-based) replaced by sig
CorruptSignature(p, i, sig) == [p EXCEPT !.links[i].signature = sig]

\* C5 as stated: an accepted proof no longer verifies when the signature of
\* any one link, links[0] included, is replaced by one that is not valid under
\* the roster trusted at that link.
C5_AnyLinkSignature ==
    VerifyAccepted =>
        \A i \in 1 .. Len(proof.links) : \A sig \in Signatures :
            sig # TrustedAt(proof, i - 1) =>
                Verify(CorruptSignature(proof, i, sig), genesisID) # Returned(Null)

\* C5 amended: the same for every link but links[0], whose signature verify
\* does not read; the corrupted proof gets the signature error.
C5_LaterLinkSignature ==
    VerifyAccepted =>
        \A i \in 2 .. Len(proof.links) : \A sig \in Signatures :
            sig # TrustedAt(proof, i - 1) =>
                Verify(CorruptSignature(proof, i, sig), genesisID)
                    = Returned(ErrSignature)

C5_Witness ==
    /\ VerifyAccepted
    /\ Len(proof.links) = 3
    /\ proof.links[1].signature = "bad"

(***************************************************************************)
(* Properties of Proof.exists                                              *)
(***************************************************************************)
\* Bit i (0-based) of the digest of k, the most significant bit of a byte
\* first
DigestBit(k, i) ==
    ((KeyDigest(k)[(i \div 8) + 1] \div (2 ^ (7 - (i % 8)))) % 2) = 1

\* The first d bits of the digest of k
DigestPrefix(k, d) == [i \in 1 .. d |-> DigestBit(k, i - 1)]

\* The child of interior node d (0-based) on the path of k
ChildOnPath(ip, k, d) ==
    IF DigestBit(k, d) THEN ip.interiors[d + 1].left ELSE ip.interiors[d + 1].right

\* The depths d >= 1 whose interior node does not hash to the child chosen
\* at depth d - 1
BrokenDepths(ip, k) ==
    {d \in 1 .. (Len(ip.interiors) - 1) :
        HashInterior(ip, d) # ChildOnPath(ip, k, d - 1)}

\* exists was called with a key and a proof it walks
ExistsWalked ==
    /\ op = "exists"
    /\ Len(key) > 0
    /\ Len(proof.inclusionproof.interiors) > 0

\* The hash the terminating node must have
LastChild(ip, k) == ChildOnPath(ip, k, Len(ip.interiors) - 1)

\* Every trie, every key stored or not, and the proof a correct server
\* generates for it
HonestProofs ==
    {[stored |-> S, key |-> k, ip |-> GenProof(S, k)] :
        S \in SUBSET StoredKeys, k \in StoredKeys}

\* C6: on the proof a correct server generates for key from a trie holding
\* the keys S, exists(key) returns true when key is in S and false when it is
\* not, and does not throw.
C6_GroundTruth ==
    op = "exists" =>
        \A h \in HonestProofs :
            (h.key = key /\ h.ip = proof.inclusionproof)
                => result = Returned(key \in h.stored)

\* the path of an absent key ends at the leaf of another key
C6_Witness ==
    /\ op = "exists"
    /\ Len(key) > 0
    /\ result = Returned(FALSE)
    /\ Len(proof.inclusionproof.leaf.key) > 0
    /\ Len(proof.inclusionproof.interiors) > 1
    /\ \E h \in HonestProofs : h.key = key /\ h.ip = proof.inclusionproof

\* C7: exists throws 'invalid interior node' exactly when some interior node
\* d >= 1 does not hash to the child of node d - 1 selected by bit d - 1 of
\* sha256(key), left for 1 and right for 0; it then returns no boolean.
C7_InteriorChain ==
    ExistsWalked =>
        (result = Thrown(ErrInterior)
            <=> BrokenDepths(proof.inclusionproof, key) # {})

C7_Witness ==
    /\ ExistsWalked
    /\ result = Thrown(ErrInterior)
    /\ 2 \in BrokenDepths(proof.inclusionproof, key)
    /\ 1 \notin BrokenDepths(proof.inclusionproof, key)

\* The prefix declared by the node exists matched, after a walk that passed
MatchedPrefix(ip, k) ==
    IF LastChild(ip, k) = HashLeaf(ip) THEN ip.leaf.prefix ELSE ip.empty.prefix

\* C8: when exists returns a boolean, the prefix of the terminating node it
\* matched equals, position by position, the first d bits of sha256(key), d
\* the number of interior nodes.
C8_PrefixEqual ==
    (ExistsWalked /\ result.kind = "return") =>
        MatchedPrefix(proof.inclusionproof, key)
            = DigestPrefix(key, Len(proof.inclusionproof.interiors))

\* C9: after a walk through interior nodes that chain up, exists throws 'no
\* corresponding leaf/empty node' exactly when the expected hash is neither
\* the leaf's nor the empty node's, and it returns a boolean only when it is
\* one of them.
C9_Terminator ==
    ExistsWalked =>
        LET ip == proof.inclusionproof
            matched == \/ LastChild(ip, key) = HashLeaf(ip)
                       \/ LastChild(ip, key) = HashEmpty(ip)
        IN /\ result = Thrown(ErrNoNode)
                <=> (BrokenDepths(ip, key) = {} /\ ~matched)
           /\ result.kind = "return" => matched

\* all interior nodes chain up and the last child is not a terminating node
C9_Witness ==
    /\ ExistsWalked
    /\ result = Thrown(ErrNoNode)
    /\ Len(proof.inclusionproof.interiors) > 1

(***************************************************************************)
(* Properties of Proof.getVerifiedInstance                                 *)
(***************************************************************************)
\* C10: getVerifiedInstance resolves exactly when verify returns null,
\* exists(leaf key) returns true and the decoded contract kind is the one
\* asked for; it rejects with verify's error when verify fails, whatever the
\* inclusion proof; and the instance it resolves with has the id,
\* contractID, darcID and data of the leaf.
C10_VerifiedInstance ==
    op = "getVerifiedInstance" =>
        LET leaf == proof.inclusionproof.leaf
            v == Verify(proof, genesisID)
            e == Exists(proof, leaf.key)
        IN /\ result.kind \in {"resolve", "reject"}
           /\ result.kind = "resolve" <=>
                /\ v = Returned(Null)
                /\ e = Returned(TRUE)
                /\ leaf.value.contractid = contractID
           /\ v # Returned(Null) => result = Rejected(v.value)
           /\ (v = Returned(Null) /\ e = Returned(FALSE))
                => result = Rejected(ErrAbsence)
           /\ result.kind = "resolve" =>
                result.value = [id |-> leaf.key,
                                contractID |-> leaf.value.contractid,
                                darcID |-> leaf.value.darcid,
                                data |-> leaf.value.value]

C10_Witness ==
    /\ op = "getVerifiedInstance"
    /\ result.kind = "resolve"
    /\ Len(proof.inclusionproof.interiors) > 1

C10_AbsenceReached ==
    op = "getVerifiedInstance" /\ result = Rejected(ErrAbsence)

C10_ContractReached ==
    op = "getVerifiedInstance" /\ result = Rejected(ErrContract)

(***************************************************************************)
(* Part 2.  Instructions and client transactions (instance.ts)             *)
(*                                                                         *)
(* A string is the sequence of its code points, a Buffer a sequence of     *)
(* bytes.  What is fed to a hash is the flat sequence of the bytes of all  *)
(* update() calls, so that two inputs that concatenate to the same bytes   *)
(* have the same digest.  Strings are well-formed (no lone surrogate) and  *)
(* below U+0800, Longs are below 2^24.                                     *)
(***************************************************************************)
\* Largest number of instructions in a transaction
MaxInstr == 3

\* Largest number of counter fetches on one transaction
MaxFetches == 1

RECURSIVE Concat(_)
\* the buffers of a list, one after the other
Concat(bufs) == IF Len(bufs) = 0 THEN <<>> ELSE Head(bufs) \o Concat(Tail(bufs))

\* Buffer.from(str), h.update(str): the UTF-8 encoding
Utf8(str) ==
    Concat([i \in DOMAIN str |->
        IF str[i] < 128
        THEN <<str[i]>>
        ELSE <<192 + (str[i] \div 64), 128 + (str[i] % 64)>>])

\* Long.toBytesLE(): 8 bytes, little endian
LongToBytesLE(n) ==
    [i \in 1 .. 8 |-> IF i > 3 THEN 0 ELSE (n \div (256 ^ (i - 1))) % 256]

\* The signer objects of the callers.  "A" and "A2" are two objects for the
\* same key.  toString() of an identity:
Signers == {"A", "A2", "B"}
IdentityToString(s) == IF s = "B" THEN "ed25519:b" ELSE "ed25519:a"

\* toWrapper() and IdentityWrapper.toBytes(): the encoding of the wrapper,
\* abstracted to distinct buffers of different lengths
ToWrapper(s) == [ed25519 |-> IdentityToString(s)]
WrapperToBytes(w) == IF w.ed25519 = "ed25519:b" THEN <<11, 11>> ELSE <<10>>

\* SignerEd25519.sign(msg): a signature is a Buffer, abstracted to one
\* element that stands for all its bytes and names the key and the message
Sign(s, msg) == <<<<"sig", IdentityToString(s), msg>>>>

\* Schnorr verification of a signature under the key of an identity string
SigVerify(id, msg, sig) == sig = <<<<"sig", id, msg>>>>

\* Instruction.createSpawn / createInvoke / createDelete.  The record holds
\* the fields of the Spawn / Invoke / Delete member next to 'type'.
CreateSpawn(iid, cid, as) ==
    [instanceID |-> iid, type |-> 0, contractID |-> cid, command |-> <<>>,
     args |-> as, signerCounter |-> <<>>, signerIdentities |-> <<>>,
     signatures |-> <<>>]

CreateInvoke(iid, cid, command, as) ==
    [instanceID |-> iid, type |-> 1, contractID |-> cid, command |-> command,
     args |-> as, signerCounter |-> <<>>, signerIdentities |-> <<>>,
     signatures |-> <<>>]

CreateDelete(iid, cid) ==
    [instanceID |-> iid, type |-> 2, contractID |-> cid, command |-> <<>>,
     args |-> <<>>, signerCounter |-> <<>>, signerIdentities |-> <<>>,
     signatures |-> <<>>]

\* Digests and signatures are fed to a hash next to plain bytes; each
\* element of what is fed says what it is.
Bytes(buf) == [i \in DOMAIN buf |-> <<"byte", buf[i]>>]

\* (the counter is not fed to the hash)
HashCounterSkipped(sc) == <<>>

\* what signerCounter.forEach feeds for one counter
HashCounter(sc) == LongToBytesLE(sc)

\* what args.forEach feeds: the name and the value of each argument, each
\* behind its length
HashArgs(as) ==
    Concat([i \in DOMAIN as |->
                LET nameBuf == Utf8(as[i].name) IN
                LongToBytesLE(Len(nameBuf)) \o nameBuf
                    \o LongToBytesLE(Len(as[i].value)) \o as[i].value])

\* (the identity is not fed to the hash)
HashIdentitySkipped(si) == <<>>

\* what signerIdentities.forEach feeds for one identity
HashIdentity(si) ==
    LET buf == WrapperToBytes(si) IN LongToBytesLE(Len(buf)) \o buf

\* Instruction.hash()
InstructionHash(instr) ==
    Sha256(Bytes(
        instr.instanceID \o <<instr.type>> \o Utf8(instr.contractID)
        \o HashArgs(instr.args)
        \o Concat([i \in DOMAIN instr.signerCounter |->
                    HashCounter(instr.signerCounter[i])])
        \o Concat([i \in DOMAIN instr.signerIdentities |->
                    HashIdentity(instr.signerIdentities[i])])))

\* (the discriminant is not fed to the hash)
HashWhatSkipped(what) == <<>>

\* h.update(Buffer.from(what))
HashWhat(what) == Bytes(Utf8(what))

\* Instruction.deriveId(what)
DeriveId(instr, what) ==
    Sha256(<<InstructionHash(instr)>>
        \o Bytes(WriteIntLE4(Len(instr.signatures)))
        \o Concat([i \in DOMAIN instr.signatures |->
                    Bytes(WriteIntLE4(Len(instr.signatures[i])))
                        \o instr.signatures[i]])
        \o HashWhat(what))

\* ClientTransaction.hash()
TxHash(instrs) ==
    Sha256([i \in DOMAIN instrs |-> InstructionHash(instrs[i])])

\* What a call without a value returns or resolves to
Undefined == "undefined"

\* (each instruction is signed over its own hash)
SignedHashOwn(instrs, i) == InstructionHash(instrs[i])

\* the hash handed to instruction i: ctxHash
SignedHash(instrs, i) == TxHash(instrs)

\* (the instructions that have a group are signed before the throw)
SignedBeforeThrow(instrs, sgs) ==
    [i \in DOMAIN instrs |->
        IF i \in DOMAIN sgs
        THEN [instrs[i] EXCEPT !.signatures =
                [j \in DOMAIN sgs[i] |->
                    Sign(sgs[i][j], SignedHash(instrs, i))]]
        ELSE instrs[i]]

\* The instructions when signWith throws: the throw comes before the
\* forEach that signs
UnsignedAtThrow(instrs, sgs) == instrs

\* (the signatures are stored last signer first)
InstrSignWithReversed(ctxHash, group) ==
    [j \in DOMAIN group |-> Sign(group[Len(group) + 1 - j], ctxHash)]

\* Instruction.signWith(ctxHash, signers): signers.map((s) => s.sign(ctxHash))
InstrSignWith(ctxHash, group) ==
    [j \in DOMAIN group |-> Sign(group[j], ctxHash)]

\* ClientTransaction.signWith(signers), with Instruction.signWith: the
\* outcome and the instructions
SignWith(instrs, sgs) ==
    IF Len(sgs) # Len(instrs)
    THEN [outcome |-> Thrown("need same number of signers as instructions"),
          instructions |-> UnsignedAtThrow(instrs, sgs)]
    ELSE [outcome |-> Returned(Undefined),
          instructions |->
            [i \in DOMAIN instrs |->
                [instrs[i] EXCEPT !.signatures =
                    InstrSignWith(SignedHash(instrs, i), sgs[i])]]]

\* uniqueSigners.findIndex((usf) => usf.toString() === us.toString())
FindIndex(list, us) ==
    CHOOSE i \in DOMAIN list :
        /\ IdentityToString(list[i]) = IdentityToString(us)
        /\ \A j \in 1 .. (i - 1) :
            IdentityToString(list[j]) # IdentityToString(us)

\* signers.reduce(concat) filtered to the first object of each identity
UniqueSigners(sgs) ==
    LET all == Concat(sgs) IN
    Concat([i \in DOMAIN all |->
        IF FindIndex(all, all[i]) = i THEN <<all[i]>> ELSE <<>>])

\* ByzCoinRPC.getSignerCounters: the request
CountersRequest(ids) ==
    [type |-> "GetSignerCounters",
     signerIDs |-> [i \in DOMAIN ids |-> IdentityToString(ids[i])]]

\* (the counters of the reply are not used)
GetSignerCountersStale(rep, add) == [i \in DOMAIN rep |-> add]

\* rep.counters.map((c) => c.add(add))
GetSignerCounters(rep, add) == [i \in DOMAIN rep |-> rep[i] + add]

\* The ledger's reply to a GetSignerCounters request
CountersReply(ctrs, req) ==
    [i \in DOMAIN req.signerIDs |-> ctrs[req.signerIDs[i]]]

\* (the counter of a used identity is not increased)
NextTallyKept(tally, k) == tally

\* signerCounters[k] = signerCounters[k].add(1)
NextTally(tally, k) == [tally EXCEPT ![k] = @ + 1]

RECURSIVE AssignCounters(_, _, _, _, _)
\* The loops over the instructions i and the signers j of instruction i,
\* with the running signerCounters in tally
AssignCounters(instrs, sgs, tally, i, j) ==
    IF i > Len(instrs)
    THEN instrs
    ELSE IF j > Len(sgs[i])
    THEN AssignCounters(instrs, sgs, tally, i + 1, 1)
    ELSE LET k == IdentityToString(sgs[i][j]) IN
         AssignCounters(
            [instrs EXCEPT
                ![i].signerIdentities = Append(@, ToWrapper(sgs[i][j])),
                ![i].signerCounter = Append(@, tally[k])],
            sgs, NextTally(tally, k), i, j + 1)

\* (the counters are fetched before the arguments are looked at)
SentFetchedFirst(sgs) == <<CountersRequest(UniqueSigners(sgs))>>

\* What went out when updateCounters returns or rejects at its two checks
SentAtCheck(sgs) == <<>>

\* ClientTransaction.updateCounters(rpc, signers) against a ledger with the
\* counters ctrs over a connection that is up or down: the outcome, the
\* instructions, and the requests sent
UpdateCounters(instrs, sgs, ctrs, up) ==
    IF Len(instrs) = 0
    THEN [outcome |-> Resolved(Undefined), instructions |-> instrs,
          sent |-> SentAtCheck(sgs)]
    ELSE IF Len(sgs) # Len(instrs)
    THEN [outcome |->
            Rejected("length of signers and instructions do not match"),
          instructions |-> instrs, sent |-> SentAtCheck(sgs)]
    ELSE LET us == UniqueSigners(sgs)
             req == CountersRequest(us)
             cs == GetSignerCounters(CountersReply(ctrs, req), 1)
             tally == [k \in {IdentityToString(us[n]) : n \in DOMAIN us} |->
                         cs[CHOOSE n \in DOMAIN us :
                                IdentityToString(us[n]) = k]]
         IN  IF ~up
             THEN [outcome |-> Rejected("network error"),
                   instructions |-> instrs, sent |-> <<req>>]
             ELSE [outcome |-> Resolved(Undefined),
                   instructions |-> AssignCounters(instrs, sgs, tally, 1, 1),
                   sent |-> <<req>>]

\* (a single group is not extended)
ExtendSignersNot(instrs, sgs) == sgs

\* The signers array after the loop that extends a single group
ExtendSigners(instrs, sgs) ==
    IF Len(sgs) = 1
    THEN [i \in 1 .. (IF Len(instrs) > 1 THEN Len(instrs) ELSE 1) |-> sgs[1]]
    ELSE sgs

\* ClientTransaction.updateCountersAndSign(rpc, signers)
UpdateCountersAndSign(instrs, sgs, ctrs, up) ==
    LET ext == ExtendSigners(instrs, sgs)
        upd == UpdateCounters(instrs, ext, ctrs, up)
        sig == SignWith(upd.instructions, ext)
    IN  IF upd.outcome.kind = "reject"
        THEN upd
        ELSE [outcome |-> IF sig.outcome.kind = "throw"
                            THEN Rejected(sig.outcome.value)
                            ELSE Resolved(Undefined),
              instructions |-> sig.instructions,
              sent |-> upd.sent]

(***************************************************************************)
(* Inputs: instructions and transactions                                   *)
(***************************************************************************)
\* Longest list of arguments, counters, identities or signatures drawn for
\* one instruction
MaxList == 2

\* "", "x", "xx", "é"
Discriminants == {<<>>, <<120>>, <<120, 120>>, <<233>>}

\* Instructions as built, of each type, with the instance IDs [1] and [2],
\* the contract kinds "c" and "dé", the commands "t" and "m" and lists of
\* the arguments ("a", [98]), ("ab", []), ("é", [1, 2]); and one of them
\* with counters, identities and signatures of any content
InstructionInputs ==
    LET InstanceIDs == {<<1>>, <<2>>}
        ContractIDs == {<<99>>, <<100, 233>>}
        Commands == {<<116>>, <<109>>}
        Arguments == {[name |-> <<97>>, value |-> <<98>>],
                      [name |-> <<97, 98>>, value |-> <<>>],
                      [name |-> <<233>>, value |-> <<1, 2>>]}
    IN  UNION {
            {CreateSpawn(iid, cid, as) :
                iid \in InstanceIDs, cid \in ContractIDs}
            \cup {CreateInvoke(iid, cid, cmd, as) :
                iid \in InstanceIDs, cid \in ContractIDs, cmd \in Commands}
            \cup {CreateDelete(iid, cid) :
                iid \in InstanceIDs, cid \in ContractIDs} :
            as \in SeqsUpTo(Arguments, MaxList)}
        \cup {[CreateSpawn(<<1>>, <<99>>,
                            <<[name |-> <<97>>, value |-> <<98>>],
                              [name |-> <<97, 98>>, value |-> <<>>]>>) EXCEPT
                !.signerCounter = cs, !.signerIdentities = ids,
                !.signatures = sigs] :
            cs \in SeqsUpTo({1, 2, 256}, MaxList),
            ids \in SeqsUpTo({ToWrapper(sg) : sg \in Signers}, MaxList),
            sigs \in SeqsUpTo({Sign(sg, RawHash(0)) : sg \in Signers},
                              MaxList)}

\* The transaction of the first n of a fixed series of instructions
TxOf(n) ==
    [i \in 1 .. n |->
        CASE i % 3 = 1 -> CreateSpawn(<<1>>, <<99>>,
                            <<[name |-> <<97>>, value |-> <<98>>]>>)
          [] i % 3 = 2 -> CreateInvoke(<<1>>, <<99>>, <<116>>, <<>>)
          [] OTHER -> CreateDelete(<<2>>, <<99>>)]

SignerGroups == {<<"A">>, <<"B">>, <<"A2", "B">>}

\* The signer counters a ledger can hold
CounterStates ==
    {[k \in {"ed25519:a", "ed25519:b"} |-> IF k = "ed25519:a" THEN a ELSE b] :
        a \in {0, 5}, b \in {0}}

(***************************************************************************)
(* SpecHash: the hash and the derived id of one instruction                *)
(***************************************************************************)
InitHash ==
    /\ ProofUnused
    /\ RestUnused
    /\ op = "none"
    /\ result = "none"
    /\ \E instr \in InstructionInputs : instructions = <<instr>>
    /\ signers = <<>>
    /\ args = <<>>
    /\ counters = <<>>
    /\ requests = <<>>

CallHash ==
    /\ op' = "hash"
    /\ result' = Returned(InstructionHash(instructions[1]))
    /\ UNCHANGED <<proofVars, txVars, restVars>>

CallDeriveId ==
    /\ \E what \in Discriminants :
        /\ args' = [what |-> what]
        /\ result' = Returned(DeriveId(instructions[1], what))
    /\ op' = "deriveId"
    /\ UNCHANGED <<proofVars, restVars, instructions, signers, counters,
                   requests>>

NextHash == CallHash \/ CallDeriveId

SpecHash == InitHash /\ [][NextHash]_vars

(***************************************************************************)
(* SpecTx: one caller builds a transaction, fetches counters and signs     *)
(***************************************************************************)
InitTx ==
    /\ ProofUnused
    /\ RestUnused
    /\ op = "none"
    /\ result = "none"
    /\ instructions \in {TxOf(n) : n \in 0 .. MaxInstr}
    /\ signers \in SeqsUpTo(SignerGroups, MaxInstr)
    /\ args = <<>>
    /\ counters \in CounterStates
    /\ requests = <<>>

CallUpdateCounters ==
    /\ Len(requests) < MaxFetches
    /\ \E up \in BOOLEAN :
        LET r == UpdateCounters(instructions, signers, counters, up) IN
        /\ instructions' = r.instructions
        /\ requests' = requests \o r.sent
        /\ result' = r.outcome
    /\ op' = "updateCounters"
    /\ UNCHANGED <<proofVars, restVars, signers, args, counters>>

CallSignWith ==
    /\ LET r == SignWith(instructions, signers) IN
        /\ instructions' = r.instructions
        /\ result' = r.outcome
    /\ op' = "signWith"
    /\ UNCHANGED <<proofVars, restVars, signers, args, counters, requests>>

CallUpdateCountersAndSign ==
    /\ Len(requests) < MaxFetches
    /\ \E up \in BOOLEAN :
        LET r == UpdateCountersAndSign(instructions, signers, counters, up) IN
        /\ instructions' = r.instructions
        /\ requests' = requests \o r.sent
        /\ result' = r.outcome
    /\ signers' = ExtendSigners(instructions, signers)
    /\ op' = "updateCountersAndSign"
    /\ UNCHANGED <<proofVars, restVars, args, counters>>

CallTxHash ==
    /\ op' = "hash"
    /\ result' = Returned(TxHash(instructions))
    /\ UNCHANGED <<proofVars, txVars, restVars>>

NextTx ==
    CallUpdateCounters \/ CallSignWith \/ CallUpdateCountersAndSign
        \/ CallTxHash

SpecTx == InitTx /\ [][NextTx]_vars

(***************************************************************************)
(* Properties of ClientTransaction.updateCounters                          *)
(***************************************************************************)
\* The positions (i, j) of all signers in the signer groups sgs
Positions(sgs) == UNION {{<<i, j>> : j \in DOMAIN sgs[i]} : i \in DOMAIN sgs}

\* How often the identity k is used before position (i, j)
UsesBefore(sgs, k, i, j) ==
    Cardinality({p \in Positions(sgs) :
        /\ IdentityToString(sgs[p[1]][p[2]]) = k
        /\ (p[1] < i \/ (p[1] = i /\ p[2] < j))})

UpdateCountersDone ==
    op = "updateCounters" /\ result = Resolved(Undefined)

\* C11: a call of updateCounters that resolves on a transaction with
\* instructions sends exactly one GetSignerCounters request, which lists
\* every identity of the signer groups exactly once, and appends to every
\* instruction i, for each signer j of group i in order, the counter
\* c + 1 + u, where c is the ledger's counter of that identity and u the
\* number of uses of the identity before (i, j): the k uses of an identity
\* receive c+1, ..., c+k in instruction order and signer order.
C11_CountersInOrder ==
    [][(UpdateCountersDone' /\ Len(instructions) > 0) =>
        /\ Len(requests') = Len(requests) + 1
        /\ SubSeq(requests', 1, Len(requests)) = requests
        /\ LET ids == requests'[Len(requests')].signerIDs IN
            /\ requests'[Len(requests')].type = "GetSignerCounters"
            /\ \A m, n \in DOMAIN ids : ids[m] = ids[n] => m = n
            /\ {ids[m] : m \in DOMAIN ids} =
                {IdentityToString(signers[p[1]][p[2]]) :
                    p \in Positions(signers)}
        /\ \A i \in DOMAIN instructions :
            instructions'[i].signerCounter =
                instructions[i].signerCounter \o
                [j \in DOMAIN signers[i] |->
                    counters[IdentityToString(signers[i][j])] + 1
                    + UsesBefore(signers, IdentityToString(signers[i][j]),
                                 i, j)]]_vars

\* Signer groups {A},{A},{B} on counters a = 5, b = 0: one request for
\* a and b, and the counters 6, 7 and 1
C11_Witness ==
    /\ UpdateCountersDone
    /\ signers = <<<<"A">>, <<"A">>, <<"B">>>>
    /\ requests = <<[type |-> "GetSignerCounters",
                     signerIDs |-> <<"ed25519:a", "ed25519:b">>]>>
    /\ instructions[1].signerCounter = <<6>>
    /\ instructions[2].signerCounter = <<7>>
    /\ instructions[3].signerCounter = <<1>>

(***************************************************************************)
(* Properties of ClientTransaction.signWith                                *)
(***************************************************************************)
\* sha256 over the instruction hashes in order
CombinedHash(instrs) ==
    Sha256([i \in DOMAIN instrs |-> InstructionHash(instrs[i])])

\* C13: signWith(signerGroups) throws when the number of groups is not the
\* number of instructions; otherwise it returns and instruction i's
\* signatures are the signatures of the signers of group i, in order, over
\* the one combined hash of the transaction, which is not the instruction's
\* own hash.
C13_SignedOverCombinedHash ==
    [][op' = "signWith" =>
        IF Len(signers) # Len(instructions)
        THEN result'.kind = "throw"
        ELSE /\ result' = Returned(Undefined)
             /\ \A i \in DOMAIN instructions :
                /\ Len(instructions'[i].signatures) = Len(signers[i])
                /\ \A j \in DOMAIN signers[i] :
                    /\ instructions'[i].signatures[j] =
                        Sign(signers[i][j], CombinedHash(instructions))
                    /\ instructions'[i].signatures[j] #
                        Sign(signers[i][j],
                             InstructionHash(instructions[i]))]_vars

\* A transaction of three instructions signed by {A}, {B}, {A2, B}
C13_Witness ==
    /\ op = "signWith"
    /\ result = Returned(Undefined)
    /\ Len(instructions) = 3
    /\ Len(instructions[3].signatures) = 2
    /\ instructions[1].signatures = <<Sign("A", CombinedHash(instructions))>>

\* Instructions that differ from instr in one field other than the
\* signatures: the command of an invoke, the instance ID, the arguments
Variants(instr) ==
    UNION {{[instr EXCEPT !.command = c] :
                c \in IF instr.type = 1 THEN {<<116>>, <<109>>} ELSE {}},
           {[instr EXCEPT !.instanceID = iid] : iid \in {<<1>>, <<2>>}},
           {[instr EXCEPT !.args = <<>>]}} \ {instr}

\* The transactions made from T by removing an instruction, adding one,
\* exchanging two, or replacing one
Splices(T) ==
    UNION {{SubSeq(T, 1, i - 1) \o SubSeq(T, i + 1, Len(T)) : i \in DOMAIN T},
           {Append(T, CreateDelete(<<1>>, <<100>>)),
            <<CreateDelete(<<1>>, <<100>>)>> \o T},
           {[T EXCEPT ![i] = T[j], ![j] = T[i]] : i, j \in DOMAIN T},
           UNION {{[T EXCEPT ![i] = x] : x \in Variants(T[i])} :
                    i \in DOMAIN T}} \ {T}

\* The instruction instr is also in the transaction T2
Contains(T2, instr) == \E n \in DOMAIN T2 : T2[n] = instr

\* C14: once a transaction T is signed, every transaction T2 that contains
\* an instruction I of T and whose list of instructions differs from T's
\* (an instruction removed, added, exchanged or replaced) has another
\* combined hash, and no signature of I verifies over the combined hash of
\* T2.
C14_BoundToTransaction ==
    (op = "signWith" /\ result = Returned(Undefined)) =>
        \A T2 \in Splices(instructions) :
            \A i \in DOMAIN instructions :
                Contains(T2, instructions[i]) =>
                    /\ TxHash(T2) # TxHash(instructions)
                    /\ \A j \in DOMAIN instructions[i].signatures :
                        ~SigVerify(IdentityToString(signers[i][j]),
                                   TxHash(T2), instructions[i].signatures[j])

(***************************************************************************)
(* Properties of Instruction.hash and Instruction.deriveId                 *)
(***************************************************************************)
\* The lists that hold the elements of list in another order and are not
\* the list itself
Permuted(list) ==
    {[i \in DOMAIN list |-> list[p[i]]] :
        p \in {q \in [DOMAIN list -> DOMAIN list] :
                \A a, b \in DOMAIN list : q[a] = q[b] => a = b}} \ {list}

\* The inputs of the hash
HashedFields(instr) ==
    <<instr.instanceID, instr.type, instr.contractID, instr.args,
      instr.signerCounter, instr.signerIdentities>>

\* C15: Instruction.hash() is a function of its inputs: a second call on
\* the unchanged instruction returns the same hash, and so does a call on
\* any instruction with the same instance ID, type, contract kind,
\* arguments, counters and identities.  It is order-sensitive: the same
\* instruction with its arguments, its signer counters or its signer
\* identities in another order (a list that is not the same list) has
\* another hash.
C15_HashOrderSensitive ==
    [][op' = "hash" =>
        LET instr == instructions'[1]
            h == result'.value
        IN  /\ result'.kind = "return"
            /\ (op = "hash" /\ instructions' = instructions)
                    => result' = result
            /\ \A other \in InstructionInputs :
                HashedFields(other) = HashedFields(instr)
                    => InstructionHash(other) = h
            /\ \A as \in Permuted(instr.args) :
                InstructionHash([instr EXCEPT !.args = as]) # h
            /\ \A cs \in Permuted(instr.signerCounter) :
                InstructionHash([instr EXCEPT !.signerCounter = cs]) # h
            /\ \A ids \in Permuted(instr.signerIdentities) :
                InstructionHash([instr EXCEPT !.signerIdentities = ids]) # h
       ]_vars

\* The hash of an instruction with two different arguments, two different
\* counters and two different identities
C15_Witness ==
    /\ op = "hash"
    /\ Permuted(instructions[1].args) # {}
    /\ Permuted(instructions[1].signerCounter) # {}
    /\ Permuted(instructions[1].signerIdentities) # {}

Callers == {"c1", "c2"}

\* The ledger accepts a transaction when the counter of every signer of
\* every instruction is above the counter it holds for the identity
LedgerAccepts(ctrs, instrs) ==
    \A i \in DOMAIN instrs : \A j \in DOMAIN instrs[i].signerCounter :
        instrs[i].signerCounter[j] > ctrs[instrs[i].signerIdentities[j].ed25519]

RECURSIVE LedgerApply(_, _, _, _)
\* The counters after an accepted transaction: the last counter used by
\* each identity
LedgerApply(ctrs, instrs, i, j) ==
    IF i > Len(instrs)
    THEN ctrs
    ELSE IF j > Len(instrs[i].signerCounter)
    THEN LedgerApply(ctrs, instrs, i + 1, 1)
    ELSE LedgerApply(
            [ctrs EXCEPT ![instrs[i].signerIdentities[j].ed25519] =
                            instrs[i].signerCounter[j]],
            instrs, i, j + 1)

InitCallers ==
    /\ ProofUnused
    /\ op = "none"
    /\ result = "none"
    /\ instructions = <<>>
    /\ signers = <<>>
    /\ args = <<>>
    /\ counters \in CounterStates
    /\ requests = <<>>
    /\ callers \in [Callers ->
        [pc : {"start"}, instructions : {TxOf(1)},
         signers : {<<<<s>>>> : s \in Signers},
         seen : {<<>>}, signedBefore : {{}}, acceptedBefore : {{}},
         verdict : {"none"}]]
    /\ rpc = <<>>
    /\ ledger = <<>>
    /\ AppUnused

\* The request of updateCounters is sent and served: the reply is made from
\* the counters the ledger holds now.  signedBefore and acceptedBefore
\* remember which callers had signed, and whose transactions the ledger had
\* accepted, by then.
FetchCounters(c) ==
    /\ callers[c].pc = "start"
    /\ requests' = Append(requests,
                    CountersRequest(UniqueSigners(callers[c].signers)))
    /\ callers' = [callers EXCEPT
            ![c].pc = "fetched",
            ![c].seen = counters,
            ![c].signedBefore =
                {d \in Callers : callers[d].pc \in {"signed", "done"}},
            ![c].acceptedBefore =
                {d \in Callers : callers[d].verdict = "accepted"}]
    /\ UNCHANGED <<appVars, proofVars, op, result, instructions, signers, args,
                   counters, rpc, ledger>>

\* The caller resumes with the reply: the rest of updateCounters, then
\* signWith
AssignAndSign(c) ==
    /\ callers[c].pc = "fetched"
    /\ callers' = [callers EXCEPT
            ![c].pc = "signed",
            ![c].instructions =
                UpdateCountersAndSign(callers[c].instructions,
                    callers[c].signers, callers[c].seen, TRUE).instructions]
    /\ UNCHANGED <<appVars, proofVars, op, result, txVars, rpc, ledger>>

\* The signed transaction is sent and the ledger gives its verdict
Submit(c) ==
    /\ callers[c].pc = "signed"
    /\ requests' = Append(requests,
                    [type |-> "AddTxRequest",
                     transaction |-> callers[c].instructions])
    /\ IF LedgerAccepts(counters, callers[c].instructions)
       THEN /\ counters' = LedgerApply(counters, callers[c].instructions, 1, 1)
            /\ callers' = [callers EXCEPT ![c].pc = "done",
                                          ![c].verdict = "accepted"]
       ELSE /\ counters' = counters
            /\ callers' = [callers EXCEPT ![c].pc = "done",
                                          ![c].verdict = "rejected"]
    /\ UNCHANGED <<appVars, proofVars, op, result, instructions, signers, args, rpc,
                   ledger>>

NextCallers ==
    \E c \in Callers : FetchCounters(c) \/ AssignAndSign(c) \/ Submit(c)

SpecCallers == InitCallers /\ [][NextCallers]_vars

(***************************************************************************)
(* Properties of the counter allocation of concurrent callers              *)
(***************************************************************************)
\* Both callers have their counter, for the same identity
SameIdentity(c, d) ==
    /\ c # d
    /\ callers[c].pc \in {"signed", "done"}
    /\ callers[d].pc \in {"signed", "done"}
    /\ callers[c].instructions[1].signerIdentities =
        callers[d].instructions[1].signerIdentities

CounterOf(c) == callers[c].instructions[1].signerCounter[1]

\* C12 as stated: of two callers of the same identity, one that starts
\* fetching counters only after the other has fetched and signed never
\* holds the same counter as the other.
C12_SerializedSigning ==
    \A c, d \in Callers :
        (SameIdentity(c, d) /\ d \in callers[c].signedBefore)
            => CounterOf(c) # CounterOf(d)

\* C12: two callers of the same identity can hold the same counter, and
\* then the ledger accepts at most one of their transactions.  A caller
\* that starts fetching counters only after the ledger has accepted the
\* transaction of the other holds a larger counter.
C12_AcceptedOnce ==
    \A c, d \in Callers :
        SameIdentity(c, d) =>
            /\ CounterOf(c) = CounterOf(d) =>
                    ~(callers[c].verdict = "accepted"
                        /\ callers[d].verdict = "accepted")
            /\ d \in callers[c].acceptedBefore => CounterOf(c) > CounterOf(d)

\* Both callers were given the same counter; the ledger accepted the first
\* transaction and rejected the second
C12_Witness ==
    /\ SameIdentity("c1", "c2")
    /\ CounterOf("c1") = CounterOf("c2")
    /\ callers["c1"].verdict = "accepted"
    /\ callers["c2"].verdict = "rejected"

\* One caller fetches after the other was accepted and holds the next counter
C12_SerializedReached ==
    /\ SameIdentity("c1", "c2")
    /\ "c1" \in callers["c2"].acceptedBefore
    /\ CounterOf("c2") = CounterOf("c1") + 1

(***************************************************************************)
(* Part 4.  The ledger client ByzCoinRPC (byzcoin-rpc.ts)                  *)
(*                                                                         *)
(* rpc holds the fields of the object: the genesis block (its hash), the   *)
(* cached config and the cached genesis darc.  ledger is the chain as the  *)
(* servers hold it: the current configuration and genesis darc (each a     *)
(* version number), the requests it has received and not decided (pool,    *)
(* by their position in 'requests') and those it has applied.  The client  *)
(* has one call in progress at a time: op names it, args holds its         *)
(* arguments, result is Unsettled until its promise settles.  A connection *)
(* that finds no endpoint rejects the promise and delivers nothing.        *)
(***************************************************************************)
\* Largest number of calls made on the client
MaxCalls == 2

\* CONFIG_INSTANCE_ID, and the ID of the genesis darc
ConfigInstanceID == <<0>>
GenesisDarcID == <<5>>

\* (the caller's wait is not put in the request)
InclusionWaitNone(wait) == 0

\* inclusionwait: wait, with wait: number = 10; the argument is <<>> when
\* the caller leaves it out and <<n>> when the caller gives n
InclusionWait(wait) == IF wait = <<>> THEN 10 ELSE wait[1]

\* new AddTxRequest({inclusionwait, skipchainID, transaction, version})
AddTxRequest(r, tx, wait) ==
    [type |-> "AddTxRequest", inclusionwait |-> InclusionWait(wait),
     skipchainID |-> r.genesis, transaction |-> tx]

\* new GetProof({id, key, version})
GetProofRequest(r, id) == [type |-> "GetProof", id |-> r.genesis, key |-> id]

\* (the request is sent twice)
ConnSendAgain(req) == <<req, req>>

\* this.conn.send(req, ...): the requests that go out
ConnSend(req) == <<req>>

\* (the cache is refreshed from the ledger)
CacheRefreshed(r, led) ==
    [r EXCEPT !.config = led.config, !.genesisDarc = led.darc]

\* The object after sendTransactionAndWait, getProof or getSignerCounters:
\* none assigns a field
CacheKept(r, led) == r

\* (the proof is verified before it is returned)
GetProofVerified(r, pr) ==
    IF Verify(pr, r.genesis) = Returned(Null)
    THEN Resolved(pr)
    ELSE Rejected("invalid proof")

\* getProof: return reply.proof
GetProofResult(r, pr) == Resolved(pr)

\* Instance.fromProof(key, p)
InstanceFromProof(k, p) ==
    LET e == Exists(p, k) IN
    IF e.kind = "throw"
    THEN e
    ELSE IF ~e.value
    THEN Thrown("key not in proof")
    ELSE Returned(InstanceFromFields(k, StateChangeBody(p).contractid,
                    StateChangeBody(p).darcid, StateChangeBody(p).value))

\* Instance.fromByzCoin(rpc, id), for the settled getProof
InstanceFromByzCoin(id, got) ==
    IF got.kind = "reject"
    THEN got
    ELSE LET inst == InstanceFromProof(id, got.value) IN
         IF inst.kind = "throw"
         THEN Rejected(inst.value)
         ELSE Resolved(inst.value)

\* ChainConfig.fromProof(pr) and the darc of DarcInstance.fromByzcoin
ConfigFromProof(pr) == StateChangeBody(pr).value

(***************************************************************************)
(* The servers                                                             *)
(***************************************************************************)
\* Transactions: one that changes the configuration, one that evolves the
\* genesis darc, and one that touches neither
ConfigTx == <<CreateInvoke(ConfigInstanceID, <<99>>, <<117>>, <<>>)>>
DarcTx == <<CreateInvoke(GenesisDarcID, <<100>>, <<101>>, <<>>)>>
RpcTransactions == {ConfigTx, DarcTx, TxOf(1)}

\* The chain after the requests inc of the pool were put in a new block
LedgerInclude(led, reqs, inc) ==
    [led EXCEPT
        !.pool = @ \ inc,
        !.applied = @ \cup inc,
        !.config = @ + Cardinality({n \in inc : reqs[n].transaction = ConfigTx}),
        !.darc = @ + Cardinality({n \in inc : reqs[n].transaction = DarcTx})]

\* The proofs a server, honest or not, may send for a key: of presence or
\* absence in the state {[1], [2]}, behind a chain of links from the genesis
\* block that is whole or broken
BrokenLinks == <<GoodLinks[1], [GoodLinks[2] EXCEPT !.from = 2]>>
ServerProofs(id) ==
    {[inclusionproof |-> GenProof({<<1>>, <<2>>}, id),
      latest |-> Block(1, 1, "R1", Root(GenProof({<<1>>, <<2>>}, id))),
      links |-> ls] : ls \in {GoodLinks, BrokenLinks}}

\* The proof the servers send for the configuration or the genesis darc:
\* the instance of contract cid under key id, with the given value
InstanceProof(id, cid, value) ==
    [inclusionproof |->
        [SmallProof EXCEPT !.leaf.key = id,
            !.leaf.value = [contractid |-> cid, darcid |-> GenesisDarcID,
                            value |-> value]],
     latest |-> Block(1, 1, "R1", Root(SmallProof)),
     links |-> GoodLinks]

(***************************************************************************)
(* SpecRpc                                                                 *)
(***************************************************************************)
\* A promise that has not settled, and whether the call in progress is one
Unsettled == [kind |-> "pending", value |-> Undefined]
Pending == op # "none" /\ result.kind = "pending"

\* After fromByzcoin / newByzCoinRPC: the cache holds the configuration and
\* the genesis darc of the chain
InitRpc ==
    /\ ProofUnused
    /\ op = "none"
    /\ result = "none"
    /\ instructions = <<>>
    /\ signers = <<>>
    /\ args = <<>>
    /\ counters \in CounterStates
    /\ requests = <<>>
    /\ callers = <<>>
    /\ AppUnused
    /\ rpc = [genesis |-> 0, config |-> 0, genesisDarc |-> 0]
    /\ ledger = [config |-> 0, darc |-> 0, pool |-> {}, applied |-> {}]

\* sendTransactionAndWait(transaction, wait): the request goes out and the
\* promise of conn.send is returned
CallSendTransactionAndWait ==
    /\ ~Pending
    /\ Len(requests) < MaxCalls
    /\ \E tx \in RpcTransactions, wait \in {<<>>, <<0>>, <<1>>}, up \in BOOLEAN :
        /\ requests' = requests \o ConnSend(AddTxRequest(rpc, tx, wait))
        /\ args' = [transaction |-> tx, wait |-> wait, blocks |-> 0]
        /\ result' = IF up THEN Unsettled ELSE Rejected("network error")
        /\ ledger' = IF up
                     THEN [ledger EXCEPT !.pool = @ \cup {Len(requests) + 1}]
                     ELSE ledger
    /\ op' = "sendTransactionAndWait"
    /\ rpc' = CacheKept(rpc, ledger)
    /\ UNCHANGED <<appVars, proofVars, instructions, signers, counters, callers>>

\* The servers create a block with some of the pooled transactions.  The
\* pending call resolves when its transaction is in a block created within
\* inclusionwait blocks, and fails once a block beyond them is created.
ServerBlock ==
    /\ ledger.pool # {}
    /\ \E inc \in SUBSET ledger.pool :
        /\ ledger' = LedgerInclude(ledger, requests, inc)
        /\ IF Pending /\ op = "sendTransactionAndWait"
           THEN LET req == requests[Len(requests)] IN
                /\ args' = [args EXCEPT !.blocks = @ + 1]
                /\ result' =
                    IF args.blocks + 1 > req.inclusionwait
                    THEN Rejected("transaction not included in time")
                    ELSE IF Len(requests) \in inc
                    THEN Resolved("AddTxResponse")
                    ELSE Unsettled
           ELSE /\ inc # {}
                /\ UNCHANGED <<appVars, args, result>>
    /\ UNCHANGED <<appVars, proofVars, op, instructions, signers, counters, requests,
                   callers, rpc>>

\* The servers refuse a pooled transaction
ServerReject ==
    /\ \E n \in ledger.pool :
        /\ ledger' = [ledger EXCEPT !.pool = @ \ {n}]
        /\ result' = IF Pending /\ op = "sendTransactionAndWait"
                        /\ n = Len(requests)
                     THEN Rejected("transaction refused")
                     ELSE result
    /\ UNCHANGED <<appVars, proofVars, op, args, instructions, signers, counters,
                   requests, callers, rpc>>

\* getProof(id): one request; the proof of the reply is returned
CallGetProof ==
    /\ ~Pending
    /\ Len(requests) < MaxCalls
    /\ \E id \in {<<1>>, <<3>>}, up \in BOOLEAN :
        /\ requests' = requests \o ConnSend(GetProofRequest(rpc, id))
        /\ args' = [id |-> id]
        /\ \E pr \in ServerProofs(id) :
            result' = IF up
                      THEN GetProofResult(rpc, pr)
                      ELSE Rejected("network error")
    /\ op' = "getProof"
    /\ rpc' = CacheKept(rpc, ledger)
    /\ UNCHANGED <<appVars, proofVars, instructions, signers, counters, callers,
                   ledger>>

\* Instance.fromByzCoin(rpc, id): getProof, then Instance.fromProof
CallInstanceFromByzCoin ==
    /\ ~Pending
    /\ Len(requests) < MaxCalls
    /\ \E id \in {<<1>>, <<3>>}, up \in BOOLEAN :
        /\ requests' = requests \o ConnSend(GetProofRequest(rpc, id))
        /\ args' = [id |-> id]
        /\ \E pr \in ServerProofs(id) :
            result' = InstanceFromByzCoin(id,
                        IF up
                        THEN GetProofResult(rpc, pr)
                        ELSE Rejected("network error"))
    /\ op' = "fromByzCoin"
    /\ rpc' = CacheKept(rpc, ledger)
    /\ UNCHANGED <<appVars, proofVars, instructions, signers, counters, callers,
                   ledger>>

\* getSignerCounters(ids, add)
CallGetSignerCounters ==
    /\ ~Pending
    /\ Len(requests) < MaxCalls
    /\ \E ids \in SignerGroups, add \in {0, 1}, up \in BOOLEAN :
        /\ requests' = requests \o ConnSend(CountersRequest(ids))
        /\ args' = [ids |-> ids, add |-> add]
        /\ result' =
            IF up
            THEN Resolved(GetSignerCounters(
                    CountersReply(counters, CountersRequest(ids)), add))
            ELSE Rejected("network error")
    /\ op' = "getSignerCounters"
    /\ rpc' = CacheKept(rpc, ledger)
    /\ UNCHANGED <<appVars, proofVars, instructions, signers, counters, callers,
                   ledger>>

\* updateConfig(), up to its second await: the proof of the configuration
\* is fetched and this.config is assigned.  args keeps darcIID for the rest
\* of the call and, as history, the cache the call started with.
UpdateConfigFetch ==
    /\ ~Pending
    /\ Len(requests) < MaxCalls
    /\ \E up \in BOOLEAN :
        LET pr == InstanceProof(ConfigInstanceID, "config", ledger.config) IN
        /\ requests' =
            requests \o ConnSend(GetProofRequest(rpc, ConfigInstanceID))
        /\ result' = IF up THEN Unsettled ELSE Rejected("network error")
        /\ rpc' = IF up
                  THEN [rpc EXCEPT !.config = ConfigFromProof(pr)]
                  ELSE rpc
        /\ args' = IF up
                   THEN [darcIID |-> StateChangeBody(pr).darcid,
                         cached |-> rpc]
                   ELSE <<>>
    /\ op' = "updateConfig"
    /\ UNCHANGED <<appVars, proofVars, instructions, signers, counters, callers,
                   ledger>>

\* updateConfig(), the rest: DarcInstance.fromByzcoin fetches the genesis
\* darc and this.genesisDarc is assigned
UpdateConfigDarc ==
    /\ Pending
    /\ op = "updateConfig"
    /\ \E up \in BOOLEAN :
        /\ requests' = requests \o ConnSend(GetProofRequest(rpc, args.darcIID))
        /\ result' = IF up
                     THEN Resolved(Undefined)
                     ELSE Rejected("network error")
        /\ rpc' = IF up
                  THEN [rpc EXCEPT !.genesisDarc = ConfigFromProof(
                            InstanceProof(args.darcIID, "darc", ledger.darc))]
                  ELSE rpc
    /\ UNCHANGED <<appVars, proofVars, op, args, instructions, signers, counters,
                   callers, ledger>>

NextRpc ==
    \/ CallSendTransactionAndWait
    \/ ServerBlock
    \/ ServerReject
    \/ CallGetProof
    \/ CallInstanceFromByzCoin
    \/ CallGetSignerCounters
    \/ UpdateConfigFetch
    \/ UpdateConfigDarc

SpecRpc == InitRpc /\ [][NextRpc]_vars

\* SpecSend: submissions only, with servers that keep creating blocks while
\* a transaction is pooled
NextSend == CallSendTransactionAndWait \/ ServerBlock \/ ServerReject

SpecSend == InitRpc /\ [][NextSend]_vars /\ WF_vars(ServerBlock)

(***************************************************************************)
(* Properties of SpecRpc                                                   *)
(***************************************************************************)
\* The AddTxRequests among the requests rs, and the step that is a call of
\* sendTransactionAndWait
AddTxSent(rs) == SelectSeq(rs, LAMBDA r : r.type = "AddTxRequest")

SendStep ==
    /\ ~Pending
    /\ op' = "sendTransactionAndWait"
    /\ <<args, result, requests>>' # <<args, result, requests>>

\* C17: a call of sendTransactionAndWait sends one AddTxRequest, which
\* carries the transaction, and no other step of the client or of the
\* servers sends one, whatever the outcome of the call; the servers pool a
\* request only when it is sent and apply only a pooled request, which then
\* leaves the pool, so that one call causes at most one application.
C17_SentOnce ==
    [][/\ SendStep =>
            /\ Len(requests') = Len(requests) + 1
            /\ requests'[Len(requests')].type = "AddTxRequest"
            /\ requests'[Len(requests')].transaction = args'.transaction
            /\ SubSeq(requests', 1, Len(requests)) = requests
       /\ ~SendStep => AddTxSent(requests') = AddTxSent(requests)
       /\ ledger'.pool \ ledger.pool \subseteq
            DOMAIN requests' \ DOMAIN requests
       /\ ledger'.applied \ ledger.applied \subseteq
            ledger.pool \ ledger'.pool
       /\ ledger.applied \subseteq ledger'.applied]_vars

\* A call has failed because its transaction was not included in time, the
\* transaction was applied afterwards, and one request was sent in all
C17_Witness ==
    /\ op = "sendTransactionAndWait"
    /\ result = Rejected("transaction not included in time")
    /\ Len(requests) = 1
    /\ ledger.applied = {1}

\* The request of the call of sendTransactionAndWait in progress or settled
SentRequest == requests[Len(requests)]

C19_CacheOnlyByUpdateConfig ==
    [][/\ rpc' # rpc => op' = "updateConfig"
       /\ rpc'.genesis = rpc.genesis]_vars

\* A transaction that changes the configuration was sent and included, the
\* call has resolved, and the cache still holds the configuration from
\* before
C19_Witness ==
    /\ op = "sendTransactionAndWait"
    /\ args.transaction = ConfigTx
    /\ result.kind = "resolve"
    /\ ledger.config = 1
    /\ rpc.config = 0

\* C35: updateConfig is all-or-nothing on the cache: when it rejects, the
\* cached config and genesis darc are those the call started with, and when
\* it resolves, the config is that of the configuration proof and the
\* genesis darc that of the instance the proof names.
C35_AllOrNothing ==
    [][/\ (op' = "updateConfig" /\ result'.kind = "reject") =>
            rpc' = (IF Pending THEN args.cached ELSE rpc)
       /\ (op' = "updateConfig" /\ result'.kind = "resolve") =>
            /\ rpc'.config = rpc.config
            /\ rpc'.genesisDarc = ConfigFromProof(
                    InstanceProof(args.darcIID, "darc", ledger.darc))
      ]_vars

\* C20: getProof(id) sends one GetProof request, changes neither the object
\* nor the chain, and resolves with the proof of the reply whatever
\* Proof.verify would say of it: it fails only when no endpoint answers.
\* Instance.fromByzCoin resolves, with the instance of the proof's state
\* change body, exactly when exists(key) is true of the proof it received,
\* so a proof behind a broken link chain yields an instance.
C20_ProofReturnedUnverified ==
    /\ [](/\ op = "getProof" =>
                /\ result.kind = "resolve" =>
                        result.value \in ServerProofs(args.id)
                /\ result.kind = "reject" =>
                        result = Rejected("network error")
          /\ op = "fromByzCoin" =>
                /\ result.kind = "resolve" =>
                    \E pr \in ServerProofs(args.id) :
                        /\ Exists(pr, args.id) = Returned(TRUE)
                        /\ result.value = InstanceFromFields(args.id,
                                StateChangeBody(pr).contractid,
                                StateChangeBody(pr).darcid,
                                StateChangeBody(pr).value)
                /\ result.kind = "reject" =>
                    \/ result = Rejected("network error")
                    \/ \A pr \in ServerProofs(args.id) :
                            Exists(pr, args.id) # Returned(TRUE))
    /\ [][(op' \in {"getProof", "fromByzCoin"} /\ requests' # requests) =>
            /\ rpc' = rpc
            /\ ledger' = ledger
            /\ requests' =
                    Append(requests, GetProofRequest(rpc, args'.id))]_vars

\* getProof has returned a proof whose link chain is broken: verify rejects
\* it, and so does getVerifiedInstance
C20_Witness ==
    /\ op = "getProof"
    /\ args.id = <<1>>
    /\ result.kind = "resolve"
    /\ Verify(result.value, rpc.genesis) = Returned(ErrChain)
    /\ Exists(result.value, args.id) = Returned(TRUE)
    /\ InstanceFromProof(args.id, result.value).kind = "return"
    /\ GetVerifiedInstance(result.value, rpc.genesis, "c") = Rejected(ErrChain)

(***************************************************************************)
(* SpecBoot: ByzCoinRPC.fromByzcoin(roster, skipchainID)                   *)
(*                                                                         *)
(* rpc is the object under construction, with the fields assigned so far;  *)
(* result is Unsettled until the promise of fromByzcoin settles.  The      *)
(* chain with genesis block 0 exists, no other does.                       *)
(***************************************************************************)
\* (the genesis block is not kept)
GenesisDropped(r, block) == r

\* rpc.genesis = await skipchain.getSkipBlock(skipchainID)
GenesisFetched(r, block) == [genesis |-> block]

InitBoot ==
    /\ ProofUnused
    /\ op = "fromByzcoin"
    /\ result = Unsettled
    /\ instructions = <<>>
    /\ signers = <<>>
    /\ args \in {[skipchainID |-> id] : id \in {0, 7}}
    /\ counters \in CounterStates
    /\ requests = <<>>
    /\ callers = <<>>
    /\ AppUnused
    /\ rpc = <<>>
    /\ ledger \in {[config |-> c, darc |-> d, pool |-> {}, applied |-> {}] :
                        c \in {0, 1, 2}, d \in {0, 1}}

\* new ByzCoinRPC() ... rpc.genesis = await skipchain.getSkipBlock(...)
BootGenesis ==
    /\ Pending
    /\ op = "fromByzcoin"
    /\ DOMAIN rpc = {}
    /\ \E up \in BOOLEAN :
        /\ requests' = requests \o
            ConnSend([type |-> "GetSingleBlock", id |-> args.skipchainID])
        /\ IF up /\ args.skipchainID = 0
           THEN /\ rpc' = GenesisFetched(rpc, args.skipchainID)
                /\ result' = result
           ELSE /\ rpc' = rpc
                /\ result' = Rejected(IF up THEN "no such block"
                                      ELSE "network error")
    /\ UNCHANGED <<appVars, proofVars, op, args, instructions, signers, counters,
                   callers, ledger>>

\* ccProof = await rpc.getProof(CONFIG_INSTANCE_ID);
\* rpc.config = ChainConfig.fromProof(ccProof)
BootConfig ==
    /\ Pending
    /\ op = "fromByzcoin"
    /\ DOMAIN rpc = {"genesis"}
    /\ \E up \in BOOLEAN :
        /\ requests' =
            requests \o ConnSend(GetProofRequest(rpc, ConfigInstanceID))
        /\ IF up
           THEN /\ rpc' = [genesis |-> rpc.genesis,
                           config |-> ConfigFromProof(InstanceProof(
                                ConfigInstanceID, "config", ledger.config))]
                /\ result' = result
           ELSE /\ rpc' = rpc
                /\ result' = Rejected("network error")
    /\ UNCHANGED <<appVars, proofVars, op, args, instructions, signers, counters,
                   callers, ledger>>

\* di = await DarcInstance.fromByzcoin(rpc, ccProof.stateChangeBody.darcID);
\* rpc.genesisDarc = di.darc; return rpc
BootDarc ==
    /\ Pending
    /\ op = "fromByzcoin"
    /\ DOMAIN rpc = {"genesis", "config"}
    /\ \E up \in BOOLEAN :
        LET darcIID == StateChangeBody(InstanceProof(ConfigInstanceID,
                            "config", ledger.config)).darcid
            made == [genesis |-> rpc.genesis, config |-> rpc.config,
                     genesisDarc |-> ConfigFromProof(InstanceProof(darcIID,
                                        "darc", ledger.darc))]
        IN
        /\ requests' = requests \o ConnSend(GetProofRequest(rpc, darcIID))
        /\ rpc' = IF up THEN made ELSE rpc
        /\ result' = IF up THEN Resolved(made) ELSE Rejected("network error")
    /\ UNCHANGED <<appVars, proofVars, op, args, instructions, signers, counters,
                   callers, ledger>>

NextBoot == BootGenesis \/ BootConfig \/ BootDarc

SpecBoot == InitBoot /\ [][NextBoot]_vars

\* C21: fromByzcoin sends, in this order, the request for the genesis block
\* of the chain, the request for the proof of the 32-zero-byte configuration
\* key on that chain, and the request for the proof of the darc that the
\* configuration proof names; config is assigned after genesis and
\* genesisDarc after config.  The promise resolves only after the three
\* replies, with an object whose genesis, config and genesisDarc are those
\* of the chain, and rejects, with no object, as soon as one step fails.
C21_BootOrder ==
    LET steps == <<[type |-> "GetSingleBlock", id |-> args.skipchainID],
                   [type |-> "GetProof", id |-> args.skipchainID,
                    key |-> ConfigInstanceID],
                   [type |-> "GetProof", id |-> args.skipchainID,
                    key |-> GenesisDarcID]>>
    IN
    /\ Len(requests) <= 3
    /\ requests = SubSeq(steps, 1, Len(requests))
    /\ DOMAIN rpc \in {{}, {"genesis"}, {"genesis", "config"},
                       {"genesis", "config", "genesisDarc"}}
    /\ Len(requests) >= Cardinality(DOMAIN rpc)
    /\ result.kind = "resolve" =>
        /\ Len(requests) = 3
        /\ result.value = [genesis |-> args.skipchainID,
                           config |-> ledger.config,
                           genesisDarc |-> ledger.darc]
    /\ result.kind = "reject" =>
        /\ Len(requests) = Cardinality(DOMAIN rpc) + 1
        /\ result.value \in {"network error", "no such block"}
    /\ result.kind = "pending" => Len(requests) = Cardinality(DOMAIN rpc)

\* The object was returned after the three fetches
C21_Witness ==
    /\ op = "fromByzcoin"
    /\ result.kind = "resolve"
    /\ Len(requests) = 3
    /\ result.value.config = 2
    /\ result.value.genesisDarc = 1

(***************************************************************************)
(* Part 5.  Access control: IdentityDarc (part_000), Rules (rules.ts) and  *)
(* the evolution of a darc (Data.attachAndEvolve, part_000)                *)
(*                                                                         *)
(* darcs is the version history of one access-control object, the latest   *)
(* version last.  A darc is [version, description, baseID, prevID, rules]  *)
(* and rules is the list of Rules, each rule [action, expr]; an expression *)
(* is the string its buffer holds.  Identities are given to the rules by   *)
(* their canonical strings.                                                *)
(***************************************************************************)
\* Largest version of the darc, and longest expression of a rule
MaxVersion == 2
MaxExpr == 24

\* this.id.toString('hex'): two lower-case digits for every byte
HexOf(bytes) ==
    LET digits == <<"0", "1", "2", "3", "4", "5", "6", "7",
                    "8", "9", "a", "b", "c", "d", "e", "f">>
        Hex[n \in 0 .. Len(bytes)] ==
            IF n = 0
            THEN ""
            ELSE Hex[n - 1] \o digits[(bytes[n] \div 16) + 1]
                            \o digits[(bytes[n] % 16) + 1]
    IN Hex[Len(bytes)]

\* (a signature made with a key over the message is accepted)
IdentityDarcVerifyKey(id, msg, sig) ==
    \E s \in Signers : SigVerify(IdentityToString(s), msg, sig)

\* IdentityDarc.verify(msg, signature)
IdentityDarcVerify(id, msg, sig) == FALSE

\* IdentityDarc.toString()
IdentityDarcToString(id) == "darc:" \o HexOf(id)

\* this.list.findIndex((r) => r.action === action): 0 stands for -1
FindRule(list, action) ==
    IF \E i \in DOMAIN list : list[i].action = action
    THEN CHOOSE i \in DOMAIN list :
            /\ list[i].action = action
            /\ \A j \in 1 .. (i - 1) : list[j].action # action
    ELSE 0

\* (the rule is pushed whether or not one exists)
AppendToRulePushed(list, action, identity, operator) ==
    Append(list, [action |-> action, expr |-> identity])

\* Rules.appendToRule(action, identity, op); identity is identity.toString()
AppendToRule(list, action, identity, operator) ==
    LET idx == FindRule(list, action) IN
    IF idx >= 1
    THEN [list EXCEPT ![idx] =
            [action |-> list[idx].action,
             expr |-> list[idx].expr \o " " \o operator \o " " \o identity]]
    ELSE Append(list, [action |-> action, expr |-> identity])

\* Rules.setRule(action, identity)
SetRule(list, action, identity) ==
    LET idx == FindRule(list, action)
        r == [action |-> action, expr |-> identity]
    IN IF idx >= 1 THEN [list EXCEPT ![idx] = r] ELSE Append(list, r)

\* Darc.id and Darc.getBaseID(): the digest of the fields, and the base ID,
\* which is the id of the darc itself at version 0
DarcID(d) ==
    Sha256(<<"darc", d.version, d.description, d.baseID, d.prevID, d.rules>>)

GetBaseID(d) == IF d.version = 0 THEN DarcID(d) ELSE d.baseID

\* (the version is kept)
EvolveSameVersion(d) ==
    [version |-> d.version, description |-> d.description,
     baseID |-> GetBaseID(d), prevID |-> DarcID(d), rules |-> d.rules]

\* Darc.evolve(): a copy at the next version
Evolve(d) ==
    [version |-> d.version + 1, description |-> d.description,
     baseID |-> GetBaseID(d), prevID |-> DarcID(d), rules |-> d.rules]

(***************************************************************************)
(* SpecRules and SpecDarc                                                  *)
(***************************************************************************)
DarcIDs == {<<>>, <<10>>, <<0, 171>>, <<255, 9>>}
RuleActions == {"_sign", "invoke:darc.evolve"}
RuleIdentities == {IdentityToString("A"), IdentityDarcToString(<<10>>)}

Latest == darcs[Len(darcs)]

\* A new darc, without rules or with the rules of its owner
InitDarc ==
    /\ ProofUnused
    /\ TxUnused
    /\ callers = <<>>
    /\ rpc = <<>>
    /\ ledger = <<>>
    /\ users = <<>>
    /\ party = <<>>
    /\ op = "none"
    /\ result = "none"
    /\ \E rules \in {<<>>, <<[action |-> "invoke:darc.evolve",
                             expr |-> "ed25519:a"],
                           [action |-> "_sign", expr |-> "ed25519:a"]>>} :
        darcs = <<[version |-> 0, description |-> "device", baseID |-> <<>>,
                   prevID |-> <<>>, rules |-> rules]>>

DarcFrame ==
    UNCHANGED <<proofVars, instructions, signers, counters, requests,
                callers, rpc, ledger, users, party>>

\* identity.verify(msg, signature) on an IdentityDarc
CallIdentityDarcVerify ==
    /\ \E id \in DarcIDs, msg \in {<<1>>, <<2>>}, s \in Signers,
          m \in {<<1>>, <<2>>} :
        /\ args' = [id |-> id, msg |-> msg, signature |-> Sign(s, m)]
        /\ result' = Returned(IdentityDarcVerify(id, msg, Sign(s, m)))
    /\ op' = "IdentityDarc.verify"
    /\ UNCHANGED darcs
    /\ DarcFrame

\* identity.toString() on an IdentityDarc
CallIdentityDarcToString ==
    /\ \E id \in DarcIDs :
        /\ args' = [id |-> id]
        /\ result' = Returned(IdentityDarcToString(id))
    /\ op' = "IdentityDarc.toString"
    /\ UNCHANGED darcs
    /\ DarcFrame

\* darc.rules.appendToRule(action, identity, op)
CallAppendToRule ==
    /\ \E action \in RuleActions, identity \in RuleIdentities,
          operator \in {"|", "&"} :
        LET list == AppendToRule(Latest.rules, action, identity, operator) IN
        /\ \A i \in DOMAIN list : Len(list[i].expr) <= MaxExpr
        /\ args' = [action |-> action, identity |-> identity,
                    op |-> operator]
        /\ darcs' = [darcs EXCEPT ![Len(darcs)].rules = list]
    /\ op' = "appendToRule"
    /\ result' = Returned(Undefined)
    /\ DarcFrame

\* darc.rules.setRule(action, identity)
CallSetRule ==
    /\ \E action \in RuleActions, identity \in RuleIdentities :
        /\ args' = [action |-> action, identity |-> identity]
        /\ darcs' = [darcs EXCEPT ![Len(darcs)].rules =
                        SetRule(@, action, identity)]
    /\ op' = "setRule"
    /\ result' = Returned(Undefined)
    /\ DarcFrame

\* darc.evolve()
CallEvolve ==
    /\ Latest.version < MaxVersion
    /\ darcs' = Append(darcs, Evolve(Latest))
    /\ op' = "evolve"
    /\ args' = <<>>
    /\ result' = Returned(Evolve(Latest))
    /\ DarcFrame

\* Data.attachAndEvolve(ephemeral) on the device darc: evolve, set the two
\* rules to the key of the new device, and have the chain take the new
\* version (evolveDarcAndWait), which may fail
CallAttachAndEvolve ==
    /\ Latest.version < MaxVersion
    /\ \E s \in Signers, ok \in BOOLEAN :
        LET newDeviceDarc == Evolve(Latest)
            rules == SetRule(SetRule(newDeviceDarc.rules, "_sign",
                                     IdentityToString(s)),
                             "invoke:darc.evolve", IdentityToString(s))
        IN
        /\ args' = [keyIdentitySigner |-> s]
        /\ darcs' = IF ok
                    THEN Append(darcs, [newDeviceDarc EXCEPT !.rules = rules])
                    ELSE darcs
        /\ result' = IF ok THEN Resolved(Undefined)
                     ELSE Rejected("transaction refused")
    /\ op' = "attachAndEvolve"
    /\ DarcFrame

\* SpecRules: the identities and the rules of one darc
NextRules ==
    \/ CallIdentityDarcVerify
    \/ CallIdentityDarcToString
    \/ CallAppendToRule
    \/ CallSetRule

SpecRules == InitDarc /\ [][NextRules]_vars

\* SpecDarc: the versions of the darc
NextDarc == CallSetRule \/ CallEvolve \/ CallAttachAndEvolve

SpecDarc == InitDarc /\ [][NextDarc]_vars

\* C22: IdentityDarc.verify returns false for every message and signature,
\* also for a signature that a key has made over the message, and
\* IdentityDarc.toString is 'darc:' followed by two lower-case hexadecimal
\* digits for each byte of the id.
C22_DarcNeverVerifies ==
    /\ op = "IdentityDarc.verify" => result = Returned(FALSE)
    /\ op = "IdentityDarc.toString" =>
        /\ result.kind = "return"
        /\ Len(result.value) = 5 + 2 * Len(args.id)
        /\ args.id = <<>> => result.value = "darc:"
        /\ args.id = <<10>> => result.value = "darc:0a"
        /\ args.id = <<0, 171>> => result.value = "darc:00ab"
        /\ args.id = <<255, 9>> => result.value = "darc:ff09"

\* verify was called with the signature of a key over the same message
C22_Witness ==
    /\ op = "IdentityDarc.verify"
    /\ args.signature = Sign("A", args.msg)
    /\ result = Returned(FALSE)

\* C23: appendToRule(action, identity, op) appends a rule whose expression
\* is the identity's string when the list has no rule for the action, and
\* otherwise replaces the expression of the first rule for the action by
\* the old expression followed by ' ', op, ' ' and the identity's string;
\* setRule(action, identity) makes that rule's expression the identity's
\* string, or appends such a rule.  Every other rule keeps its place and
\* its expression.
C23_RuleEdits ==
    [][LET old == darcs[Len(darcs)].rules
           new == darcs'[Len(darcs')].rules
           a == args'.action
           at == {i \in DOMAIN old : old[i].action = a}
           expected(i) ==
                IF op' = "setRule"
                THEN args'.identity
                ELSE old[i].expr \o " " \o args'.op \o " " \o args'.identity
       IN op' \in {"appendToRule", "setRule"} =>
            /\ Len(darcs') = Len(darcs)
            /\ \A v \in 1 .. (Len(darcs) - 1) : darcs'[v] = darcs[v]
            /\ at = {} =>
                new = Append(old, [action |-> a, expr |-> args'.identity])
            /\ at # {} =>
                /\ Len(new) = Len(old)
                /\ \A i \in DOMAIN old :
                    /\ new[i].action = old[i].action
                    /\ new[i].expr =
                        IF i \in at /\ \A j \in at : i <= j
                        THEN expected(i)
                        ELSE old[i].expr]_vars

\* An identity was appended to the first of two rules
C23_Witness ==
    /\ op = "appendToRule"
    /\ args = [action |-> "_sign", identity |-> "darc:0a", op |-> "&"]
    /\ Latest.rules =
        <<[action |-> "_sign", expr |-> "ed25519:a & darc:0a"],
          [action |-> "invoke:darc.evolve", expr |-> "darc:0a"]>>

\* C24: every version of the darc has the base ID of the original, and the
\* darc obtained by N evolutions from version 0 has version N, also when
\* rules are set between the evolutions.
C24_EvolveKeepsBaseID ==
    /\ darcs[1].version = 0
    /\ \A i \in DOMAIN darcs :
        /\ darcs[i].version = i - 1
        /\ GetBaseID(darcs[i]) = GetBaseID(darcs[1])
        /\ i > 1 => darcs[i].prevID = DarcID(darcs[i - 1])

\* Two evolutions, the second by attachAndEvolve, which has set the rules
C24_Witness ==
    /\ Len(darcs) = 3
    /\ op = "attachAndEvolve"
    /\ result.kind = "resolve"
    /\ Latest.version = 2
    /\ Latest.rules # darcs[2].rules
    /\ Latest.baseID = DarcID(darcs[1])

(***************************************************************************)
(* Part 6.  Users (Data, part_000) and the release of secrets (calypso,    *)
(* part_002)                                                               *)
(*                                                                         *)
(* users.list holds the Data objects: [alias, priv, lts, contact], where   *)
(* lts is the id of the user's LongTermSecret and contact.ltsID what the   *)
(* credential of the contact names.  users.writes holds the calypso write  *)
(* instances of the chain.                                                 *)
(***************************************************************************)
\* Largest number of users, and of write instances
MaxUsers == 3
MaxWrites == 2

\* Contact.prepareInitialCred(alias, pub, spawner, lts): the credential
\* names the id of the lts
PrepareInitialCred(alias, lts) == [alias |-> alias, ltsID |-> lts]

\* (a fresh lts is given to the new user)
LtsFresh(creator) == "lts0"

\* The lts that createUser hands to prepareInitialCred: this.lts
LtsOf(creator) == creator.lts

\* After TestData.init / Data.createFirstUser: the first user, whose lts was
\* spawned and whose credential was prepared from it
InitUsers ==
    /\ ProofUnused
    /\ TxUnused
    /\ callers = <<>>
    /\ rpc = <<>>
    /\ ledger = <<>>
    /\ darcs = <<>>
    /\ party = <<>>
    /\ op = "none"
    /\ result = "none"
    /\ \E lts \in {"lts1", "lts2"} :
        users = [list |-> <<[alias |-> "admin", priv |-> 1, lts |-> lts,
                             contact |-> PrepareInitialCred("admin", lts)]>>,
                 writes |-> <<>>]

\* creator.createUser(alias): the credential is prepared from this.lts, the
\* darcs, the coin and the credential are spawned, the contact is made from
\* the credential, and connectByzcoin sets the lts of the new user from its
\* contact.  A failed spawn rejects and creates no user.
CreateUser ==
    /\ Len(users.list) < MaxUsers
    /\ \E creator \in DOMAIN users.list, alias \in {"user1", "user2"},
          priv \in {2, 3}, ok \in BOOLEAN :
        LET cred == PrepareInitialCred(alias, LtsOf(users.list[creator]))
            d == [alias |-> alias, priv |-> priv, lts |-> cred.ltsID,
                  contact |-> cred]
        IN
        /\ args' = [creator |-> creator, alias |-> alias]
        /\ users' = IF ok
                    THEN [users EXCEPT !.list = Append(@, d)]
                    ELSE users
        /\ result' = IF ok THEN Resolved(d)
                     ELSE Rejected("transaction refused")
    /\ op' = "createUser"
    /\ UNCHANGED <<proofVars, instructions, signers, counters, requests,
                   callers, rpc, ledger, darcs, party>>

NextUsers == CreateUser

SpecUsers == InitUsers /\ [][NextUsers]_vars

\* C25: the user that createUser returns has the contact.ltsID of the user
\* that created it, which is the id of the creator's lts; every user
\* therefore names the lts of the first user.
C25_CreatedUserCarriesLts ==
    /\ \A i \in DOMAIN users.list :
        /\ users.list[i].contact.ltsID = users.list[1].contact.ltsID
        /\ users.list[i].lts = users.list[i].contact.ltsID
    /\ (op = "createUser" /\ result.kind = "resolve") =>
        /\ result.value = users.list[Len(users.list)]
        /\ result.value.contact.ltsID =
            users.list[args.creator].contact.ltsID

\* A user created by a user that was itself created
C25_Witness ==
    /\ op = "createUser"
    /\ result.kind = "resolve"
    /\ args.creator = 2
    /\ Len(users.list) = 3
    /\ result.value.contact.ltsID = "lts2"
(***************************************************************************)
(* Part 7: CoinInstance.spawn, from the instruction to the new instance    *)
(***************************************************************************)
\* CoinInstance.contractID = 'coin', as the code points of the string
CoinContractID == <<99, 111, 105, 110>>

\* new Argument({name: 'type', value: type})
TypeArgument(type) == [name |-> <<116, 121, 112, 101>>, value |-> type]

\* Instruction.setCounters(counters, identities)
InstrSetCounters(instr, ctrs, ids) ==
    [instr EXCEPT !.signerCounter = ctrs, !.signerIdentities = ids]

\* Instruction.updateCounters(rpc, signers), for the settled
\* getSignerCounters(signers, 1)
InstrUpdateCounters(instr, sgs, got) ==
    IF got.kind = "reject"
    THEN [outcome |-> got, instruction |-> instr]
    ELSE [outcome |-> Resolved(Undefined),
          instruction |->
            InstrSetCounters(instr, got.value,
                             [j \in DOMAIN sgs |-> ToWrapper(sgs[j])])]

\* (the id of the instruction as it was before it was signed)
SpawnedIdUnsigned(instr) == DeriveId([instr EXCEPT !.signatures = <<>>], <<>>)

\* inst.deriveId(), read after signWith and sendTransactionAndWait
SpawnedId(instr) == DeriveId(instr, <<>>)

\* new CoinInstance(bc, await Instance.fromByzCoin(bc, iid))
CoinFromByzcoin(got) ==
    IF got.kind = "reject"
    THEN got
    ELSE IF got.value.contractID # "coin"
    THEN Rejected("mismatch contract name")
    ELSE Resolved(got.value)

\* The ledger checks every signature of every instruction against the hash
\* of the transaction
SignaturesValid(instrs) ==
    \A i \in DOMAIN instrs :
        /\ Len(instrs[i].signatures) = Len(instrs[i].signerIdentities)
        /\ \A j \in DOMAIN instrs[i].signatures :
            SigVerify(instrs[i].signerIdentities[j].ed25519,
                      TxHash(instrs), instrs[i].signatures[j])

\* The instance a Spawn of a coin creates: stored under the id derived from
\* the instruction as the ledger received it, governed by the darc the
\* instruction names, a coin of the given type with the value 0
SpawnedCoin(instr) ==
    [id |-> DeriveId(instr, <<>>),
     body |-> [contractid |-> "coin", darcid |-> instr.instanceID,
               value |-> instr.args[1].value \o LongToBytesLE(0)]]

\* The proof of an honest server for the key id in a state that holds the
\* instances insts (at most one): the leaf of the instance when its digest
\* shares the first bit with the key, else the empty node on the key's side
\* (the child on the side of a set bit is the left one)
LedgerProof(insts, id) ==
    LET b == HashToBits(id)[1]
        here == {x \in insts : HashToBits(x.id)[1] = b}
        there == insts \ here
        LeafOf(x) == [prefix |-> <<HashToBits(x.id)[1]>>, key |-> x.id,
                      value |-> x.body]
        NodeOf(S, bit) ==
            IF S = {}
            THEN HashEmpty([nonce |-> Nonce, empty |-> [prefix |-> <<bit>>]])
            ELSE HashLeaf([nonce |-> Nonce,
                           leaf |-> LeafOf(CHOOSE x \in S : TRUE)])
        ip == [interiors |->
                <<[left |-> IF b THEN NodeOf(here, TRUE) ELSE NodeOf(there, TRUE),
                   right |-> IF b THEN NodeOf(there, FALSE) ELSE NodeOf(here, FALSE)]>>,
               leaf |-> IF here = {} THEN NoLeaf
                        ELSE LeafOf(CHOOSE x \in here : TRUE),
               empty |-> IF here = {} THEN [prefix |-> <<b>>] ELSE NoEmpty,
               nonce |-> Nonce]
    IN  [inclusionproof |-> ip,
         latest |-> Block(1, 1, "R1", Root(ip)),
         links |-> GoodLinks]

SpawnDarcIDs == {<<1>>, <<2>>}
CoinTypes == {<<97>>, <<98>>}

\* The caller holds a connected client and is about to call
\* CoinInstance.spawn(bc, darcID, signers, type)
InitSpawn ==
    /\ ProofUnused
    /\ AppUnused
    /\ callers = <<>>
    /\ op = "CoinInstance.spawn"
    /\ result = Unsettled
    /\ instructions = <<>>
    /\ signers \in SignerGroups
    /\ args \in {[pc |-> "start", darcID |-> d, type |-> t] :
                    d \in SpawnDarcIDs, t \in CoinTypes}
    /\ counters \in CounterStates
    /\ requests = <<>>
    /\ rpc = [genesis |-> 0, config |-> 0, genesisDarc |-> 0]
    /\ ledger = [config |-> 0, darc |-> 0, pool |-> {}, applied |-> {},
                 state |-> {}]

\* Instruction.createSpawn(...) and await inst.updateCounters(bc, signers)
SpawnUpdateCounters ==
    /\ args.pc = "start"
    /\ \E up \in BOOLEAN :
        LET inst == CreateSpawn(args.darcID, CoinContractID,
                                <<TypeArgument(args.type)>>)
            req == CountersRequest(signers)
            got == IF up
                   THEN Resolved(GetSignerCounters(
                            CountersReply(counters, req), 1))
                   ELSE Rejected("network error")
            upd == InstrUpdateCounters(inst, signers, got)
        IN  /\ requests' = requests \o ConnSend(req)
            /\ instructions' = <<upd.instruction>>
            /\ IF upd.outcome.kind = "reject"
               THEN /\ result' = upd.outcome
                    /\ args' = [args EXCEPT !.pc = "done"]
               ELSE /\ result' = Unsettled
                    /\ args' = [args EXCEPT !.pc = "counted"]
    /\ UNCHANGED <<appVars, proofVars, op, signers, counters, callers, rpc,
                   ledger>>

\* new ClientTransaction({instructions: [inst]}) and ctx.signWith([signers])
SpawnSignWith ==
    /\ args.pc = "counted"
    /\ LET sg == SignWith(instructions, <<signers>>) IN
        /\ instructions' = sg.instructions
        /\ IF sg.outcome.kind = "throw"
           THEN /\ result' = Rejected(sg.outcome.value)
                /\ args' = [args EXCEPT !.pc = "done"]
           ELSE /\ result' = Unsettled
                /\ args' = [args EXCEPT !.pc = "signed"]
    /\ UNCHANGED <<appVars, proofVars, op, signers, counters, requests,
                   callers, rpc, ledger>>

\* bc.sendTransactionAndWait(ctx, 10): the request goes out
SpawnSend ==
    /\ args.pc = "signed"
    /\ requests' = requests \o ConnSend(AddTxRequest(rpc, instructions, <<10>>))
    /\ ledger' = [ledger EXCEPT !.pool = @ \cup {Len(requests) + 1}]
    /\ args' = [args EXCEPT !.pc = "sent"]
    /\ rpc' = CacheKept(rpc, ledger)
    /\ UNCHANGED <<appVars, proofVars, op, result, instructions, signers,
                   counters, callers>>

\* The servers include the transaction within the wait: the contract
\* creates the instance and the counters of the signers advance
SpawnIncluded ==
    /\ args.pc = "sent"
    /\ LET tx == requests[Len(requests)].transaction IN
        /\ LedgerAccepts(counters, tx)
        /\ SignaturesValid(tx)
        /\ counters' = LedgerApply(counters, tx, 1, 1)
        /\ ledger' = [LedgerInclude(ledger, requests, {Len(requests)})
                        EXCEPT !.state = @ \cup {SpawnedCoin(tx[1])}]
    /\ args' = [args EXCEPT !.pc = "included"]
    /\ UNCHANGED <<appVars, proofVars, op, result, instructions, signers,
                   requests, callers, rpc>>

\* The servers refuse the transaction, do not include it within the wait,
\* or cannot be reached: sendTransactionAndWait rejects, and so does spawn
SpawnRefused ==
    /\ args.pc = "sent"
    /\ \E msg \in {"transaction refused", "transaction not included in time",
                   "network error"} :
        result' = Rejected(msg)
    /\ ledger' = [ledger EXCEPT !.pool = {}]
    /\ args' = [args EXCEPT !.pc = "done"]
    /\ UNCHANGED <<appVars, proofVars, op, instructions, signers, counters,
                   requests, callers, rpc>>

\* return CoinInstance.fromByzcoin(bc, inst.deriveId())
SpawnFetch ==
    /\ args.pc = "included"
    /\ \E up \in BOOLEAN :
        LET id == SpawnedId(instructions[1]) IN
        /\ requests' = requests \o ConnSend(GetProofRequest(rpc, id))
        /\ result' = CoinFromByzcoin(InstanceFromByzCoin(id,
                        IF up
                        THEN GetProofResult(rpc, LedgerProof(ledger.state, id))
                        ELSE Rejected("network error")))
    /\ args' = [args EXCEPT !.pc = "done"]
    /\ rpc' = CacheKept(rpc, ledger)
    /\ UNCHANGED <<appVars, proofVars, op, instructions, signers, counters,
                   callers, ledger>>

NextSpawn ==
    \/ SpawnUpdateCounters
    \/ SpawnSignWith
    \/ SpawnSend
    \/ SpawnIncluded
    \/ SpawnRefused
    \/ SpawnFetch

SpecSpawn == InitSpawn /\ [][NextSpawn]_vars

\* The instance the workflow is expected to return
ExpectedCoin ==
    InstanceFromFields(DeriveId(instructions[1], <<>>), "coin", args.darcID,
                       args.type \o LongToBytesLE(0))

\* C26: once spawn has built, counted, signed and sent its instruction and
\* the transaction was included, the proof fetched for deriveId("") of the
\* signed instruction shows the new coin instance (spawn resolves with the
\* coin of the given darc and type, and rejects only when the servers cannot
\* be reached); the id derived before signing is a different key, and the
\* proof for that key reports absence.
C26_SpawnEndToEnd ==
    (args.pc = "done" /\ Len(requests) = 3) =>
        LET inst == instructions[1]
            before == SpawnedIdUnsigned(inst)
        IN  /\ requests[3] = GetProofRequest(rpc, DeriveId(inst, <<>>))
            /\ Exists(LedgerProof(ledger.state, DeriveId(inst, <<>>)),
                      DeriveId(inst, <<>>)) = Returned(TRUE)
            /\ result \in {Resolved(ExpectedCoin), Rejected("network error")}
            /\ before # DeriveId(inst, <<>>)
            /\ Exists(LedgerProof(ledger.state, before), before)
                 = Returned(FALSE)

C26_Witness ==
    /\ args.pc = "done"
    /\ Len(requests) = 3
    /\ Len(signers) = 1
    /\ result = Resolved(ExpectedCoin)
(***************************************************************************)
(* Part 8: the release of a secret (calypso, part_002).  The group of the  *)
(* suite is modelled by the residues modulo GroupOrder: the point s.G is   *)
(* the residue s, and the base point G is 1.                               *)
(***************************************************************************)
GroupOrder == 7
BasePoint == 1

\* curve25519.scalar().neg(s), point().mul(s, P), point().add(P, Q),
\* point().neg(P)
ScalarNeg(s) == (GroupOrder - (s % GroupOrder)) % GroupOrder
PointMul(s, P) == (s * P) % GroupOrder
PointAdd(P, Q) == (P + Q) % GroupOrder
PointNeg(P) == (GroupOrder - (P % GroupOrder)) % GroupOrder

\* point().embedLen(): the longest key a point can carry; a byte of a key
\* is 0 or 1
EmbedLen == 1
PadRange == 2

\* point().embed(key, rand): the point that carries the key, padded with
\* random bits
Embed(symKey, pad) ==
    (IF symKey = <<>> THEN 0 ELSE 1 + symKey[1]) * PadRange + pad

\* point.data(): the bytes a point carries
PointData(P) ==
    LET c == P \div PadRange IN IF c = 0 THEN <<>> ELSE <<c - 1>>

\* Write.createWrite(ltsid, writeDarc, X, key, rand): r and the padding are
\* drawn from rand.  ubar, e and f, the proof that binds the write to its
\* darc, are checked by the servers and are not read back by a reader.
CreateWrite(ltsid, X, symKey, rand) ==
    IF Len(symKey) > EmbedLen
    THEN Rejected("key is too long")
    ELSE Resolved([u |-> PointMul(rand.r, BasePoint),
                   c |-> PointAdd(PointMul(rand.r, X),
                                  Embed(symKey, rand.pad)),
                   ltsid |-> ltsid])

\* (the private key of the reader is not negated)
DecodeKeyPlain(X, C, XhatEnc, priv) ==
    PointData(PointAdd(C, PointNeg(PointAdd(XhatEnc, PointMul(priv, X)))))

\* DecodeKey(X, C, XhatEnc, priv)
DecodeKey(X, C, XhatEnc, priv) ==
    LET xcInv == ScalarNeg(priv)
        XhatDec == PointMul(xcInv, X)
        Xhat == PointAdd(XhatEnc, XhatDec)
        XhatInv == PointNeg(Xhat)
        keyPointHat == PointAdd(C, XhatInv)
    IN  PointData(keyPointHat)

\* The secret of a long-term secret group, shared among the servers, and
\* its public key X
LtsSecret(lts) == IF lts = "lts1" THEN 3 ELSE 5
LtsPoint(lts) == PointMul(LtsSecret(lts), BasePoint)

\* The reply of the servers to DecryptKey{read, write}: the write's U
\* re-encrypted to the public key Xc of the read, with C and X
DecryptKeyReply(wr, Xc) ==
    [c |-> wr.c,
     xhatenc |-> PointMul(LtsSecret(wr.ltsid), PointAdd(wr.u, Xc)),
     x |-> LtsPoint(wr.ltsid)]

\* DecryptKeyReply.decrypt(priv)
ReplyDecrypt(rep, priv) == DecodeKey(rep.x, rep.c, rep.xhatenc, priv)

\* The symmetric cipher under which the application stores the data next
\* to the encrypted key
KeyStream(k) == IF k = <<>> THEN 17 ELSE 34 + k[1]
SymEncrypt(k, data) == [i \in DOMAIN data |-> (data[i] + KeyStream(k)) % 256]
SymDecrypt(k, enc) ==
    [i \in DOMAIN enc |-> (enc[i] + 256 - KeyStream(k)) % 256]

\* The public key of a user
PublicOf(u) == PointMul(u.priv, BasePoint)

\* What reader recovers from one stored write: CalypsoReadInstance.spawn
\* for the reader's public key, decrypt(ocs, priv), and the data decrypted
\* under the recovered key
ReadItem(w, reader) ==
    LET rep == DecryptKeyReply(w.write, PublicOf(reader))
        k == ReplyDecrypt(rep, reader.priv)
    IN  [plainData |-> SymDecrypt(k, w.write.data)]

\* calypso.read(contact) by reader: one item for each write stored by the
\* contact for the reader's identity, in the order they were stored
CalypsoRead(us, reader, contact) ==
    LET mine == SelectSeq(us.writes,
                    LAMBDA w : w.owner = contact /\ w.reader = reader)
    IN  [i \in DOMAIN mine |-> ReadItem(mine[i], us.list[reader])]

SymKeys == {<<0>>, <<1>>, <<0, 0>>}
Randoms == {[r |-> 2, pad |-> 0], [r |-> 5, pad |-> 1]}
PlainData == {<<7>>, <<250, 9>>}
WriterReaderPairs == {<<1, 2>>, <<1, 3>>, <<2, 3>>}

\* The first user has created two users; all share its lts
InitCalypso ==
    /\ ProofUnused
    /\ TxUnused
    /\ callers = <<>>
    /\ rpc = <<>>
    /\ ledger = <<>>
    /\ darcs = <<>>
    /\ party = <<>>
    /\ op = "none"
    /\ result = "none"
    /\ \E lts \in {"lts1", "lts2"} :
        users = [list |->
                    [i \in 1 .. 3 |->
                        LET alias == <<"admin", "user1", "user2">>[i] IN
                        [alias |-> alias, priv |-> i, lts |-> lts,
                         contact |-> PrepareInitialCred(alias, lts)]],
                 writes |-> <<>>]

\* owner.contact.calypso.add(data, [reader identity]): a symmetric key is
\* drawn, the data encrypted under it, the key encrypted by createWrite to
\* the lts of the owner and the write spawned for the reader.  A key that
\* is too long or a failed spawn rejects and stores nothing.  'stored'
\* records what was handed in; no operation reads it.
CalypsoAdd ==
    /\ Len(users.writes) < MaxWrites
    /\ \E pair \in WriterReaderPairs, k \in SymKeys, rand \in Randoms,
          data \in PlainData, ok \in BOOLEAN :
        LET owner == users.list[pair[1]]
            wr == CreateWrite(owner.lts, LtsPoint(owner.lts), k, rand)
        IN
        /\ args' = [owner |-> pair[1], reader |-> pair[2], data |-> data]
        /\ IF wr.kind = "reject"
           THEN /\ result' = wr
                /\ users' = users
           ELSE IF ~ok
           THEN /\ result' = Rejected("transaction refused")
                /\ users' = users
           ELSE /\ result' = Resolved(Undefined)
                /\ users' =
                    [users EXCEPT !.writes =
                        Append(@, [owner |-> pair[1], reader |-> pair[2],
                                   write |-> [u |-> wr.value.u,
                                              c |-> wr.value.c,
                                              ltsid |-> wr.value.ltsid,
                                              data |-> SymEncrypt(k, data)],
                                   stored |-> [key |-> k, data |-> data]])]
    /\ op' = "calypso.add"
    /\ UNCHANGED <<proofVars, instructions, signers, counters, requests,
                   callers, rpc, ledger, darcs, party>>

\* reader.contact.calypso.read(contact)
CallCalypsoRead ==
    /\ \E reader \in DOMAIN users.list, contact \in DOMAIN users.list,
          up \in BOOLEAN :
        /\ args' = [reader |-> reader, contact |-> contact]
        /\ result' = IF up
                     THEN Resolved(CalypsoRead(users, reader, contact))
                     ELSE Rejected("network error")
    /\ op' = "calypso.read"
    /\ UNCHANGED <<proofVars, instructions, signers, counters, requests,
                   callers, rpc, ledger, darcs, users, party>>

NextCalypso ==
    \/ CalypsoAdd
    \/ CallCalypsoRead

SpecCalypso == InitCalypso /\ [][NextCalypso]_vars

\* C27: when calypso.add resolves, the key that createWrite encrypted is
\* what DecodeKey returns to the reader after the re-encryption to the
\* reader's key; a read that resolves returns, for each write the contact
\* stored for the reader, one item whose plaintext is the stored data: so
\* exactly one item, equal to the data, when one write was stored.
C27_SecretRoundTrip ==
    [][/\ (op' = "calypso.add" /\ result'.kind = "resolve") =>
            LET w == users'.writes[Len(users'.writes)]
                reader == users'.list[w.reader]
            IN  /\ w.stored.data = args'.data
                /\ ReplyDecrypt(DecryptKeyReply(w.write, PublicOf(reader)),
                                reader.priv) = w.stored.key
       /\ (op' = "calypso.read" /\ result'.kind = "resolve") =>
            LET mine == SelectSeq(users.writes,
                            LAMBDA w : w.owner = args'.contact
                                        /\ w.reader = args'.reader)
            IN  result'.value =
                    [i \in DOMAIN mine |-> [plainData |-> mine[i].stored.data]]
      ]_vars

\* user2 reads the contact of user1, which stored one write for user2 and
\* the admin another for user2: exactly one item comes back, the data
C27_Witness ==
    /\ op = "calypso.read"
    /\ args = [reader |-> 3, contact |-> 2]
    /\ Len(users.writes) = 2
    /\ users.writes[1].owner = 1
    /\ users.writes[2].owner = 2
    /\ result = Resolved(<<[plainData |-> <<250, 9>>]>>)
(***************************************************************************)
(* Properties of the argument checks of ClientTransaction                  *)
(***************************************************************************)
\* C28: updateCounters on a transaction without instructions resolves with
\* no request sent; with instructions and a number of signer groups that is
\* not the number of instructions it rejects with no request sent; in both
\* cases no instruction changes (no signerCounter, no signerIdentities).
C28_ChecksBeforeNetwork ==
    [][op' = "updateCounters" =>
        /\ Len(instructions) = 0 =>
            /\ result' = Resolved(Undefined)
            /\ requests' = requests
            /\ instructions' = instructions
        /\ (Len(instructions) # 0 /\ Len(signers) # Len(instructions)) =>
            /\ result' =
                Rejected("length of signers and instructions do not match")
            /\ requests' = requests
            /\ instructions' = instructions]_vars

\* Two instructions and one signer group: rejected, nothing sent, no
\* counter and no identity assigned
C28_Witness ==
    /\ op = "updateCounters"
    /\ result = Rejected("length of signers and instructions do not match")
    /\ Len(instructions) = 2
    /\ Len(signers) = 1
    /\ requests = <<>>
    /\ \A i \in DOMAIN instructions :
        /\ instructions[i].signerCounter = <<>>
        /\ instructions[i].signerIdentities = <<>>

\* The signatures of the signers of group g over the hash of instrs
GroupSignatures(instrs, g) == [j \in DOMAIN g |-> Sign(g[j], TxHash(instrs))]

\* C29: updateCountersAndSign with a single signer group g on n >= 1
\* instructions fails only when the counters cannot be fetched; when it
\* resolves, one request went out, and every instruction i got the
\* identities of g, the counters c + i of these identities (c the ledger's
\* counter of each, i = 1 .. n) and the signatures of g over the hash of
\* the transaction.  With two or more groups a call that resolves was given
\* one group per instruction and instruction i got the identities and the
\* signatures of group i.
C29_SingleGroupForAll ==
    [][(op' = "updateCountersAndSign" /\ Len(instructions) >= 1) =>
        /\ Len(signers) = 1 =>
            /\ result' \in {Resolved(Undefined), Rejected("network error")}
            /\ Len(requests') = Len(requests) + 1
            /\ result' = Resolved(Undefined) =>
                \A i \in DOMAIN instructions :
                    /\ instructions'[i].signerIdentities =
                        instructions[i].signerIdentities \o
                        [j \in DOMAIN signers[1] |-> ToWrapper(signers[1][j])]
                    /\ instructions'[i].signerCounter =
                        instructions[i].signerCounter \o
                        [j \in DOMAIN signers[1] |->
                            counters[IdentityToString(signers[1][j])] + i]
                    /\ instructions'[i].signatures =
                        GroupSignatures(instructions', signers[1])
        /\ (Len(signers) >= 2 /\ result' = Resolved(Undefined)) =>
            /\ Len(signers) = Len(instructions)
            /\ signers' = signers
            /\ \A i \in DOMAIN instructions :
                /\ instructions'[i].signerIdentities =
                    instructions[i].signerIdentities \o
                    [j \in DOMAIN signers[i] |-> ToWrapper(signers[i][j])]
                /\ instructions'[i].signatures =
                    GroupSignatures(instructions', signers[i])]_vars

\* The group {A2, B} given alone for three fresh instructions on counters
\* a = 5, b = 0: one request, counters 6, 7, 8 for a and 1, 2, 3 for b
C29_Witness ==
    /\ op = "updateCountersAndSign"
    /\ result = Resolved(Undefined)
    /\ signers = <<<<"A2", "B">>, <<"A2", "B">>, <<"A2", "B">>>>
    /\ Len(requests) = 1
    /\ Len(instructions) = 3
    /\ \A i \in 1 .. 3 :
        /\ instructions[i].signerCounter = <<5 + i, i>>
        /\ instructions[i].signerIdentities =
            <<ToWrapper("A2"), ToWrapper("B")>>
        /\ Len(instructions[i].signatures) = 2

\* C30: signWith with a number of signer groups that is not the number of
\* instructions throws and changes no instruction: every signatures list
\* is what it was before the call.
C30_ThrowLeavesUnsigned ==
    [][(op' = "signWith" /\ Len(signers) # Len(instructions)) =>
        /\ result' = Thrown("need same number of signers as instructions")
        /\ instructions' = instructions
        /\ \A i \in DOMAIN instructions :
            instructions'[i].signatures = instructions[i].signatures]_vars

\* Three unsigned instructions and two signer groups: thrown, none signed
C30_Witness ==
    /\ op = "signWith"
    /\ result = Thrown("need same number of signers as instructions")
    /\ Len(instructions) = 3
    /\ Len(signers) = 2
    /\ \A i \in DOMAIN instructions : instructions[i].signatures = <<>>
(***************************************************************************)
(* Properties of the error paths of Proof                                  *)
(***************************************************************************)
\* C31: exists called with an empty key throws 'key is nil', and called
\* with a key on a proof without interior node throws 'no interior node',
\* whatever the hashes of the proof are; it does not return for these
\* inputs.
C31_DegenerateInputsThrow ==
    op = "exists" =>
        /\ key = <<>> => result = Thrown(ErrKeyNil)
        /\ (key # <<>> /\ Len(proof.inclusionproof.interiors) = 0) =>
            result = Thrown(ErrNoInterior)
        /\ (key = <<>> \/ Len(proof.inclusionproof.interiors) = 0) =>
            result.kind # "return"

\* The empty key asked of a proof whose hashes are all consistent
C31_Witness ==
    /\ op = "exists"
    /\ key = <<>>
    /\ Len(proof.inclusionproof.interiors) > 0
    /\ Exists(proof, proof.inclusionproof.leaf.key).kind = "return"
    /\ result = Thrown(ErrKeyNil)

\* A key asked of a proof without interior node
C31_NoInteriorReached ==
    /\ op = "exists"
    /\ key # <<>>
    /\ Len(proof.inclusionproof.interiors) = 0
    /\ result = Thrown(ErrNoInterior)
(***************************************************************************)
(* Part 9: PopPartyInstance (byzcoin-rpc.ts 520-755): the life cycle of a  *)
(* party and the list of attendees being scanned                           *)
(***************************************************************************)
\* Largest number of calls made on the instance
MaxPartyCalls == 3

\* PopPartyInstance.PRE_BARRIER, SCANNING, FINALIZED
PRE_BARRIER == 1
SCANNING == 2
FINALIZED == 3

\* PopPartyInstance.contractID = 'popParty' and the commands 'barrier',
\* 'finalize', 'mine', as code points
PopPartyContractID == <<112, 111, 112, 80, 97, 114, 116, 121>>
CommandOf(name) ==
    CASE name = "barrier" -> <<98, 97, 114, 114, 105, 101, 114>>
      [] name = "finalize" -> <<102, 105, 110, 97, 108, 105, 122, 101>>
      [] name = "mine" -> <<109, 105, 110, 101>>

PartyID == <<7>>
AttendeeKeys == {1, 2}
OrgKeys == <<9>>

\* (the state of the party is not looked at)
StateIsNotAny(p, st) == FALSE

\* this.popPartyStruct.state !== PopPartyInstance.<st>
StateIsNot(p, st) == p.struct.state # st

\* this.tmpAttendees.findIndex((pub) => pub.equals(attendee)), 0 for -1
FindAttendee(tmp, attendee) ==
    IF \E i \in DOMAIN tmp : tmp[i] = attendee
    THEN CHOOSE i \in DOMAIN tmp :
            /\ tmp[i] = attendee
            /\ \A j \in 1 .. (i - 1) : tmp[j] # attendee
    ELSE 0

\* (the key is pushed without looking for it)
AddAttendeeAlways(p, attendee) ==
    IF StateIsNot(p, SCANNING)
    THEN [outcome |-> Thrown("party is not in attendee-adding mode"),
          party |-> p]
    ELSE [outcome |-> Returned(Undefined),
          party |-> [p EXCEPT !.tmpAttendees = Append(@, attendee)]]

\* addAttendee(attendee)
AddAttendee(p, attendee) ==
    IF StateIsNot(p, SCANNING)
    THEN [outcome |-> Thrown("party is not in attendee-adding mode"),
          party |-> p]
    ELSE [outcome |-> Returned(Undefined),
          party |-> IF FindAttendee(p.tmpAttendees, attendee) = 0
                    THEN [p EXCEPT !.tmpAttendees = Append(@, attendee)]
                    ELSE p]

\* removeAttendee(attendee): splice(i, 1) and the length of the list
RemoveAttendee(p, attendee) ==
    IF StateIsNot(p, SCANNING)
    THEN [outcome |-> Thrown("party is not in attendee-adding mode"),
          party |-> p]
    ELSE LET i == FindAttendee(p.tmpAttendees, attendee)
             tmp == IF i > 0
                    THEN SubSeq(p.tmpAttendees, 1, i - 1)
                            \o SubSeq(p.tmpAttendees, i + 1,
                                      Len(p.tmpAttendees))
                    ELSE p.tmpAttendees
         IN  [outcome |-> Returned(Len(tmp)),
              party |-> [p EXCEPT !.tmpAttendees = tmp]]

\* get finalStatement()
FinalStatement(p) ==
    IF StateIsNot(p, FINALIZED)
    THEN Thrown("this party is not finalized yet")
    ELSE Returned([attendees |-> p.struct.attendees,
                   desc |-> p.struct.description])

\* update(), for the instance read from the ledger: the struct is decoded
\* from its data, and the keys of the organizers are fetched when the party
\* is scanning and no attendee is listed
PartyUpdate(p, led) ==
    [struct |-> led.party,
     tmpAttendees |-> IF led.party.state = SCANNING /\ Len(p.tmpAttendees) = 0
                      THEN OrgKeys
                      ELSE p.tmpAttendees]

\* The party on the ledger after an included invoke of the contract: the
\* barrier opens the scanning, finalize stores the attendees it was given
PartyContract(st, command, attendees) ==
    CASE command = "barrier" /\ st.state = PRE_BARRIER ->
            [st EXCEPT !.state = SCANNING]
      [] command = "finalize" /\ st.state = SCANNING ->
            [st EXCEPT !.state = FINALIZED, !.attendees = attendees]
      [] OTHER -> st

\* An invoke of the party: the transaction is built, updateCountersAndSign
\* fetches the counters (when signed is set) and signs,
\* sendTransactionAndWait sends it and update() reads the instance back.
\* net says how far the network lets the call get: 0 no counters, 1 the
\* transaction fails, 2 the update fails, 3 all succeed.
PartyInvoke(p, led, ctrs, r, command, as, sgs, signed, net) ==
    LET instr == CreateInvoke(PartyID, PopPartyContractID, CommandOf(command),
                              as)
        ucs == IF signed
               THEN UpdateCountersAndSign(<<instr>>, <<sgs>>, ctrs, net > 0)
               ELSE [outcome |-> Resolved(Undefined),
                     instructions |-> <<instr>>, sent |-> <<>>]
        tx == AddTxRequest(r, ucs.instructions, <<>>)
        led2 == [led EXCEPT !.party = PartyContract(@, command,
                                                    p.struct.attendees)]
        get == GetProofRequest(r, PartyID)
    IN  IF ucs.outcome.kind = "reject"
        THEN [outcome |-> ucs.outcome, party |-> p, ledger |-> led,
              counters |-> ctrs, sent |-> ucs.sent]
        ELSE IF net < 2
        THEN [outcome |-> Rejected("transaction refused"), party |-> p,
              ledger |-> led, counters |-> ctrs,
              sent |-> ucs.sent \o ConnSend(tx)]
        ELSE IF net < 3
        THEN [outcome |-> Rejected("network error"), party |-> p,
              ledger |-> led2,
              counters |-> LedgerApply(ctrs, ucs.instructions, 1, 1),
              sent |-> ucs.sent \o ConnSend(tx) \o ConnSend(get)]
        ELSE [outcome |-> Resolved(led2.party.state),
              party |-> PartyUpdate(p, led2), ledger |-> led2,
              counters |-> LedgerApply(ctrs, ucs.instructions, 1, 1),
              sent |-> ucs.sent \o ConnSend(tx) \o ConnSend(get)]

\* activateBarrier(signers)
ActivateBarrier(p, led, ctrs, r, sgs, net) ==
    IF StateIsNot(p, PRE_BARRIER)
    THEN [outcome |-> Rejected("barrier point has already been passed"),
          party |-> p, ledger |-> led, counters |-> ctrs, sent |-> <<>>]
    ELSE PartyInvoke(p, led, ctrs, r, "barrier", <<>>, sgs, TRUE, net)

\* finalize(signers): the attendees scanned are put into the struct before
\* the transaction is built
Finalize(p, led, ctrs, r, sgs, net) ==
    IF StateIsNot(p, SCANNING)
    THEN [outcome |-> Rejected("party did not pass barrier-point yet"),
          party |-> p, ledger |-> led, counters |-> ctrs, sent |-> <<>>]
    ELSE LET q == [p EXCEPT !.struct.attendees = p.tmpAttendees] IN
         PartyInvoke(q, led, ctrs, r, "finalize",
                     <<[name |-> <<97>>, value |-> q.struct.attendees]>>,
                     sgs, TRUE, net)

\* mine(secret, coinID, newDarc): the transaction is not signed
Mine(p, led, ctrs, r, target, net) ==
    IF StateIsNot(p, FINALIZED)
    THEN [outcome |-> Rejected("cannot mine on a non-finalized party"),
          party |-> p, ledger |-> led, counters |-> ctrs, sent |-> <<>>]
    ELSE IF target = "none"
    THEN [outcome |-> Rejected("need to give either coinIID or newDarc"),
          party |-> p, ledger |-> led, counters |-> ctrs, sent |-> <<>>]
    ELSE LET inv == PartyInvoke(p, led, ctrs, r, "mine",
                                <<[name |-> <<108>>, value |-> <<1>>]>>,
                                <<>>, FALSE, net)
         IN  IF inv.outcome.kind = "resolve"
             THEN [inv EXCEPT !.outcome = Resolved(Undefined)]
             ELSE inv

\* PopPartyInstance.fromByzcoin(bc, iid): the struct decoded from the
\* instance on the ledger, no attendee scanned
InitParty ==
    /\ ProofUnused
    /\ callers = <<>>
    /\ darcs = <<>>
    /\ users = <<>>
    /\ op = "none"
    /\ result = "none"
    /\ instructions = <<>>
    /\ signers = <<"A">>
    /\ args = [calls |-> 0, attendee |-> 0]
    /\ counters \in CounterStates
    /\ requests = <<>>
    /\ rpc = [genesis |-> 0, config |-> 0, genesisDarc |-> 0]
    /\ \E st \in {PRE_BARRIER, SCANNING, FINALIZED} :
        /\ ledger = [party |-> [state |-> st, description |-> "party",
                                attendees |-> IF st = FINALIZED
                                              THEN <<1>> ELSE <<>>]]
        /\ party = [struct |-> ledger.party, tmpAttendees |-> <<>>]

\* The frame of a call on the instance, counted in args with the key it
\* was given (0 for none)
PartyCall(name, attendee) ==
    /\ args.calls < MaxPartyCalls
    /\ args' = [calls |-> args.calls + 1, attendee |-> attendee]
    /\ op' = name
    /\ UNCHANGED <<proofVars, instructions, signers, callers, rpc, darcs,
                   users>>

\* The outcome r of a call that uses the network
PartySettled(r) ==
    /\ result' = r.outcome
    /\ party' = r.party
    /\ ledger' = r.ledger
    /\ counters' = r.counters
    /\ requests' = requests \o r.sent

\* The outcome r of a call that is local
PartyLocal(r) ==
    /\ result' = r.outcome
    /\ party' = r.party
    /\ UNCHANGED <<ledger, counters, requests>>

CallAddAttendee ==
    /\ \E a \in AttendeeKeys :
        /\ PartyCall("addAttendee", a)
        /\ PartyLocal(AddAttendee(party, a))

CallRemoveAttendee ==
    /\ \E a \in AttendeeKeys :
        /\ PartyCall("removeAttendee", a)
        /\ PartyLocal(RemoveAttendee(party, a))

CallFinalStatement ==
    /\ PartyCall("finalStatement", 0)
    /\ PartyLocal([outcome |-> FinalStatement(party), party |-> party])

CallActivateBarrier ==
    /\ PartyCall("activateBarrier", 0)
    /\ \E net \in 0 .. 3 :
        PartySettled(ActivateBarrier(party, ledger, counters, rpc, signers,
                                     net))

CallFinalize ==
    /\ PartyCall("finalize", 0)
    /\ \E net \in 0 .. 3 :
        PartySettled(Finalize(party, ledger, counters, rpc, signers, net))

CallMine ==
    /\ PartyCall("mine", 0)
    /\ \E net \in 1 .. 3, target \in {"none", "coinID", "newDarc"} :
        PartySettled(Mine(party, ledger, counters, rpc, target, net))

\* update()
CallPartyUpdate ==
    /\ PartyCall("update", 0)
    /\ \E up \in BOOLEAN :
        /\ requests' = requests \o ConnSend(GetProofRequest(rpc, PartyID))
        /\ IF up
           THEN /\ party' = PartyUpdate(party, ledger)
                /\ result' = Resolved(Undefined)
           ELSE /\ party' = party
                /\ result' = Rejected("network error")
    /\ UNCHANGED <<ledger, counters>>

\* Another organizer moves the party on the ledger
OtherOrganizer ==
    /\ \E command \in {"barrier", "finalize"} :
        /\ ledger.party # PartyContract(ledger.party, command, <<2>>)
        /\ ledger' = [ledger EXCEPT
                        !.party = PartyContract(@, command, <<2>>)]
    /\ UNCHANGED <<proofVars, op, result, txVars, callers, rpc, appVars>>

NextParty ==
    \/ CallAddAttendee
    \/ CallRemoveAttendee
    \/ CallFinalStatement
    \/ CallActivateBarrier
    \/ CallFinalize
    \/ CallMine
    \/ CallPartyUpdate
    \/ OtherOrganizer

SpecParty == InitParty /\ [][NextParty]_vars

\* The state in which an operation is accepted
AcceptedIn(name) ==
    CASE name = "activateBarrier" -> PRE_BARRIER
      [] name \in {"finalize", "addAttendee", "removeAttendee"} -> SCANNING
      [] name \in {"mine", "finalStatement"} -> FINALIZED

\* The errors of an operation that is called in the wrong state
StateErrors ==
    {"barrier point has already been passed",
     "party did not pass barrier-point yet",
     "party is not in attendee-adding mode",
     "cannot mine on a non-finalized party",
     "this party is not finalized yet"}

\* C32: an operation of the party called in another state than the one it
\* is accepted in ends in an error with no request sent and the struct and
\* the list of scanned attendees unchanged; called in its state it does not
\* end in that error; and the state of the struct changes only in a step
\* that read the instance from the ledger, to the state on the ledger.
C32_Lifecycle ==
    [][/\ (args' # args /\ op' # "update") =>
            IF party.struct.state # AcceptedIn(op')
            THEN /\ result'.kind \in {"throw", "reject"}
                 /\ result'.value \in StateErrors
                 /\ requests' = requests
                 /\ party' = party
            ELSE ~(/\ result'.kind \in {"throw", "reject"}
                   /\ result'.value \in StateErrors)
       /\ party'.struct.state # party.struct.state =>
            /\ requests' # requests
            /\ requests'[Len(requests')] = GetProofRequest(rpc, PartyID)
            /\ party'.struct.state = ledger'.party.state
      ]_vars

\* finalize called before the barrier was activated, after attendees could
\* not be added
C32_Witness ==
    /\ op = "finalize"
    /\ party.struct.state = PRE_BARRIER
    /\ result = Rejected("party did not pass barrier-point yet")
    /\ requests = <<>>
    /\ args.calls = 2
\* No key is listed twice
NoKeyTwice(tmp) == \A i, j \in DOMAIN tmp : tmp[i] = tmp[j] => i = j

\* The keys of a list
KeysOf(tmp) == {tmp[i] : i \in DOMAIN tmp}

C33_AddedTwice ==
    /\ op = "addAttendee"
    /\ args = [calls |-> 2, attendee |-> 1]
    /\ party.tmpAttendees = <<1>>
    /\ requests = <<>>
(***************************************************************************)
(* Part 10: the recovery signatures a Data object collects (part_000)      *)
(***************************************************************************)
\* Largest number of recovery signatures stored at one time
MaxStored == 3

\* RecoverySignature.pubSig, the length of a public key with its
\* signature, scaled down to two bytes
PubSigLen == 2

\* Data.urlRecoverySignature
UrlRecoverySignature == "https://pop.dedis.ch/recoverySig-1"

\* The value of a hexadecimal digit, -1 for any other character
HexDigit(c) ==
    LET lower == <<"0", "1", "2", "3", "4", "5", "6", "7", "8", "9",
                   "a", "b", "c", "d", "e", "f">>
        upper == <<"0", "1", "2", "3", "4", "5", "6", "7", "8", "9",
                   "A", "B", "C", "D", "E", "F">>
    IN  IF \E i \in 1 .. 16 : lower[i] = c
        THEN (CHOOSE i \in 1 .. 16 : lower[i] = c) - 1
        ELSE IF \E i \in 1 .. 16 : upper[i] = c
        THEN (CHOOSE i \in 1 .. 16 : upper[i] = c) - 1
        ELSE -1

RECURSIVE HexDecode(_)
\* Buffer.from(str, 'hex'), str given as its characters: one byte for each
\* pair of digits, up to the first pair that is not hexadecimal
HexDecode(str) ==
    IF Len(str) < 2 \/ HexDigit(str[1]) < 0 \/ HexDigit(str[2]) < 0
    THEN <<>>
    ELSE <<16 * HexDigit(str[1]) + HexDigit(str[2])>>
            \o HexDecode(SubSeq(str, 3, Len(str)))

\* (the signatures stored are kept whatever they are for)
KeptAll(list, credIID) == list

\* The signatures kept before the new one is pushed: none when the first
\* one stored is for another credentialIID
Kept(list, credIID) ==
    IF Len(list) > 0 /\ list[1].credentialIID # credIID THEN <<>> ELSE list

\* Data.recoveryStore(signature), for the object sigObj parsed from the
\* string: the outcome and the list of stored signatures
RecoveryStore(list, sigObj) ==
    IF sigObj.url # UrlRecoverySignature
    THEN [outcome |-> Rejected("not a recovery signature"), list |-> list]
    ELSE IF Len(sigObj.credentialIID) = 0 \/ Len(sigObj.pubSig) = 0
    THEN [outcome |-> Rejected("credentialIID or signature missing"),
          list |-> list]
    ELSE LET credIID == HexDecode(sigObj.credentialIID)
             pubSig == HexDecode(sigObj.pubSig)
         IN  IF Len(pubSig) # PubSigLen
             THEN [outcome |-> Rejected("signature should be of length 64"),
                   list |-> list]
             ELSE [outcome |-> Resolved(Undefined),
                   list |-> Append(Kept(list, credIID),
                                   [credentialIID |-> credIID,
                                    pubSig |-> pubSig])]

\* Data.recoveryUser(): the credentialIID the contact is fetched for
RecoveryUser(list) ==
    IF Len(list) = 0
    THEN Rejected("don't have any recovery signatures stored yet.")
    ELSE Resolved(list[1].credentialIID)

\* What a scanned code can hold: the url, and the two fields as the
\* characters of their strings (none when the field is missing)
ScannedUrls == {UrlRecoverySignature, "https://pop.dedis.ch/recoveryReq-1"}
ScannedCredIIDs == {<<>>, <<"0", "a">>, <<"0", "A">>, <<"0", "b">>}
ScannedPubSigs ==
    {<<>>, <<"1", "1", "2", "2">>, <<"3", "3", "4", "4">>, <<"1", "1">>,
     <<"1", "1", "z", "z">>}

\* new Data(): no signature is stored
InitRecovery ==
    /\ ProofUnused
    /\ TxUnused
    /\ callers = <<>>
    /\ rpc = <<>>
    /\ ledger = <<>>
    /\ darcs = <<>>
    /\ party = <<>>
    /\ op = "none"
    /\ result = "none"
    /\ users = [recoverySignatures |-> <<>>]

RecoveryFrame ==
    UNCHANGED <<proofVars, instructions, signers, counters, requests,
                callers, rpc, ledger, darcs, party>>

CallRecoveryStore ==
    /\ Len(users.recoverySignatures) < MaxStored
    /\ \E url \in ScannedUrls, c \in ScannedCredIIDs, s \in ScannedPubSigs :
        LET sigObj == [url |-> url, credentialIID |-> c, pubSig |-> s]
            r == RecoveryStore(users.recoverySignatures, sigObj)
        IN  /\ args' = sigObj
            /\ result' = r.outcome
            /\ users' = [users EXCEPT !.recoverySignatures = r.list]
    /\ op' = "recoveryStore"
    /\ RecoveryFrame

CallRecoveryUser ==
    /\ op' = "recoveryUser"
    /\ args' = <<>>
    /\ result' = RecoveryUser(users.recoverySignatures)
    /\ users' = users
    /\ RecoveryFrame

NextRecovery ==
    \/ CallRecoveryStore
    \/ CallRecoveryUser

SpecRecovery == InitRecovery /\ [][NextRecovery]_vars

\* C34: all stored recovery signatures are for one credentialIID; a
\* recoveryStore that resolves appends the signature when it is for the
\* credentialIID being collected and otherwise leaves it as the only one
\* stored; a recoveryStore that rejects leaves the list as it was.
C34_OneCredential ==
    [][/\ \A i \in DOMAIN users'.recoverySignatures :
            users'.recoverySignatures[i].credentialIID =
                users'.recoverySignatures[1].credentialIID
       /\ (op' = "recoveryStore" /\ result'.kind = "resolve") =>
            LET new == [credentialIID |-> HexDecode(args'.credentialIID),
                        pubSig |-> HexDecode(args'.pubSig)]
                old == users.recoverySignatures
            IN  users'.recoverySignatures =
                    IF Len(old) > 0
                        /\ old[1].credentialIID # new.credentialIID
                    THEN <<new>>
                    ELSE Append(old, new)
       /\ (op' = "recoveryStore" /\ result'.kind = "reject") =>
            /\ users' = users
            /\ \/ args'.url # UrlRecoverySignature
               \/ args'.credentialIID = <<>>
               \/ args'.pubSig = <<>>
               \/ Len(HexDecode(args'.pubSig)) # PubSigLen
      ]_vars

\* Two signatures for 0a were stored, then one for 0b: it is the only one
C34_Witness ==
    /\ op = "recoveryStore"
    /\ result = Resolved(Undefined)
    /\ args.credentialIID = <<"0", "b">>
    /\ users.recoverySignatures =
        <<[credentialIID |-> <<11>>, pubSig |-> <<17, 34>>]>>
(***************************************************************************)
(* Part 11: what a signature of a transaction is bound to                  *)
(***************************************************************************)
\* An instruction whose one argument has a name and a value of eight bytes
\* each: "abc" and [1, 2, 3], both filled up with zero bytes
PaddedSpawn ==
    CreateSpawn(<<1>>, <<99>>,
        <<[name |-> <<97, 98, 99, 0, 0, 0, 0, 0>>,
           value |-> <<1, 2, 3, 0, 0, 0, 0, 0>>]>>)

\* SpecSigned: the calls of SpecTx, on the transactions of SpecTx and on
\* the transaction of the one instruction PaddedSpawn
InitSigned ==
    /\ ProofUnused
    /\ RestUnused
    /\ op = "none"
    /\ result = "none"
    /\ instructions \in {TxOf(n) : n \in 1 .. MaxInstr} \cup {<<PaddedSpawn>>}
    /\ signers \in SeqsUpTo(SignerGroups, MaxInstr)
    /\ args = <<>>
    /\ counters \in CounterStates
    /\ requests = <<>>

SpecSigned == InitSigned /\ [][NextTx]_vars

RECURSIVE AsLongs(_)
\* The Longs whose toBytesLE() give the bytes, for bytes that are such
\* (here: words of eight bytes with a value below 2^24), else no Longs
AsLongs(bytes) ==
    IF Len(bytes) < 8 \/ Len(bytes) % 8 # 0
        \/ \E i \in 4 .. 8 : bytes[i] # 0
    THEN <<>>
    ELSE <<bytes[1] + 256 * bytes[2] + 65536 * bytes[3]>>
            \o AsLongs(SubSeq(bytes, 9, Len(bytes)))

\* Other lists of arguments for an instruction: none, one more, another
\* value for the first.  A delete has no arguments.
ArgChoices(instr) ==
    IF instr.type = 2
    THEN {}
    ELSE ({<<>>, Append(instr.args, [name |-> <<122>>, value |-> <<>>])}
          \cup {[instr.args EXCEPT ![1].value = <<7>>] : n \in
                    IF Len(instr.args) > 0 THEN {1} ELSE {}})
         \ {instr.args}

\* Other counters: none, one more, the first one increased, and the bytes
\* of the arguments read as counters in front of the counters
CounterChoices(instr) ==
    ({<<>>, Append(instr.signerCounter, 1),
      AsLongs(HashArgs(instr.args)) \o instr.signerCounter}
     \cup {[instr.signerCounter EXCEPT ![1] = @ + 1] : n \in
                IF Len(instr.signerCounter) > 0 THEN {1} ELSE {}})
    \ {instr.signerCounter}

\* Other identities: none, one more, the first one replaced by another
IdentityChoices(instr) ==
    ({<<>>, Append(instr.signerIdentities, ToWrapper("B"))}
     \cup {[instr.signerIdentities EXCEPT ![1] =
                IF @ = ToWrapper("B") THEN ToWrapper("A") ELSE ToWrapper("B")] :
            n \in IF Len(instr.signerIdentities) > 0 THEN {1} ELSE {}})
    \ {instr.signerIdentities}

\* The instruction with other arguments, other counters or other identities
SingleChanges(instr) ==
    {[instr EXCEPT !.args = as] : as \in ArgChoices(instr)}
    \cup {[instr EXCEPT !.signerCounter = cs] : cs \in CounterChoices(instr)}
    \cup {[instr EXCEPT !.signerIdentities = ids] :
            ids \in IdentityChoices(instr)}

\* The instruction with any of the three changed, alone or together
AnyChanges(instr) ==
    {[instr EXCEPT !.args = as, !.signerCounter = cs,
                   !.signerIdentities = ids] :
        as \in ArgChoices(instr) \cup {instr.args},
        cs \in CounterChoices(instr) \cup {instr.signerCounter},
        ids \in IdentityChoices(instr) \cup {instr.signerIdentities}}
    \ {instr}

\* The transaction was signed by the last call
JustSigned ==
    \/ op = "signWith" /\ result = Returned(Undefined)
    \/ op = "updateCountersAndSign" /\ result = Resolved(Undefined)

\* No signature of the instructions old is one over the combined hash of
\* the instructions new
Invalidated(old, new) ==
    \A i \in DOMAIN old : \A j \in DOMAIN old[i].signatures :
        \A s \in Signers : old[i].signatures[j] # Sign(s, TxHash(new))

\* The hash does not look at the signatures, signWith changes no hash and
\* signs the hash the transaction has afterwards, and a signed transaction
\* with one instruction replaced by a changed one (Changes) has another
\* hash, over which no signature is valid; so has one on which
\* updateCounters ran after the signing
HashBinds(Changes(_)) ==
    /\ \A i \in DOMAIN instructions' :
         \A sigs \in {<<>>, <<Sign("B", RawHash(0))>>} :
             InstructionHash([instructions'[i] EXCEPT !.signatures = sigs])
                 = InstructionHash(instructions'[i])
    /\ op' = "signWith" =>
         /\ \A i \in DOMAIN instructions :
             InstructionHash(instructions'[i])
                 = InstructionHash(instructions[i])
         /\ TxHash(instructions') = TxHash(instructions)
         /\ result' = Returned(Undefined) =>
             \A i \in DOMAIN instructions :
                 \A j \in DOMAIN instructions'[i].signatures :
                     instructions'[i].signatures[j] =
                         Sign(signers[i][j], TxHash(instructions'))
    /\ JustSigned' =>
         \A i \in DOMAIN instructions' :
             \A x \in Changes(instructions'[i]) :
                 /\ InstructionHash(x) # InstructionHash(instructions'[i])
                 /\ TxHash([instructions' EXCEPT ![i] = x])
                         # TxHash(instructions')
                 /\ Invalidated(instructions',
                                [instructions' EXCEPT ![i] = x])
    /\ (JustSigned /\ op' = "updateCounters"
             /\ instructions' # instructions) =>
         /\ TxHash(instructions') # TxHash(instructions)
         /\ Invalidated(instructions', instructions')

\* C36 (amended): Instruction.hash() does not depend on the signatures;
\* signWith leaves every instruction hash and the transaction hash
\* unchanged and signs the hash the transaction has after signing; a later
\* change of the arguments alone, of the counters alone or of the
\* identities alone, and a later updateCounters, changes the hash and
\* leaves no signature valid.
C36_HashBindsEachField == [][HashBinds(SingleChanges)]_vars

\* C36 (as stated): the same for any later change of the arguments, the
\* counters and the identities, alone or together.
C36_HashBindsAnyChange == [][HashBinds(AnyChanges)]_vars

\* The transaction was signed and updateCounters then appended counters:
\* its signatures are no longer valid
C36_Witness ==
    /\ op = "updateCounters"
    /\ result = Resolved(Undefined)
    /\ Len(instructions) = 2
    /\ Len(instructions[1].signatures) = 1
    /\ Len(instructions[1].signerCounter) = 1
    /\ Invalidated(instructions, instructions)
(***************************************************************************)
(* Part 12: how Proof.verify reports a failure                             *)
(***************************************************************************)
\* C37: Proof.verify never throws: for every proof, one without forward
\* links included, verify(genesisID) returns null or an Error.
C37_VerifyNeverThrows ==
    op = "verify" => result.kind = "return"

\* verify was called on a proof with a valid latest block and a valid root
\* but no forward link
C37_NoLinkReached ==
    /\ op = "verify"
    /\ ~LatestInvalid(proof)
    /\ Len(proof.inclusionproof.interiors) > 0
    /\ ~RootInvalid(proof)
    /\ Len(proof.links) = 0
(***************************************************************************)
(* Part 13: a list of rules and its clone (rules.ts).  darcs holds the     *)
(* arrays that exist, heap, and which of them is the list of the original  *)
(* Rules object and which the list of its clone (0: not cloned yet).       *)
(***************************************************************************)
\* Largest number of calls made on the two objects
MaxRuleCalls == 3

\* Rules.getRule(action): list.find, the rule in a list of one, or the
\* empty list for undefined
GetRule(list, action) ==
    IF FindRule(list, action) >= 1
    THEN <<list[FindRule(list, action)]>>
    ELSE <<>>

\* Rule.clone(): a new rule with the action and a copy of the expression
RuleClone(r) == [action |-> r.action, expr |-> r.expr]

\* (the clone uses the list of the original)
RulesCloneShared(heap, ref) == [heap |-> heap, ref |-> ref]

\* Rules.clone(): a new Rules object whose list is a new array of the
\* clones of the rules
RulesClone(heap, ref) ==
    [heap |-> Append(heap, [i \in DOMAIN heap[ref] |-> RuleClone(heap[ref][i])]),
     ref |-> Len(heap) + 1]

\* The lists a Rules object starts with: at most one rule for an action
StartLists ==
    {<<>>,
     <<[action |-> "_sign", expr |-> "ed25519:a"]>>,
     <<[action |-> "invoke:darc.evolve", expr |-> "ed25519:a"],
       [action |-> "_sign", expr |-> "ed25519:a | darc:0a"]>>}

InitClone ==
    /\ ProofUnused
    /\ instructions = <<>>
    /\ signers = <<>>
    /\ counters = <<>>
    /\ requests = <<>>
    /\ callers = <<>>
    /\ rpc = <<>>
    /\ ledger = <<>>
    /\ users = <<>>
    /\ party = <<>>
    /\ op = "none"
    /\ result = "none"
    /\ args = [calls |-> 0]
    /\ \E list \in StartLists : darcs = [heap |-> <<list>>, orig |-> 1, copy |-> 0]

\* The objects that exist, and the array that is the list of one
RulesObjects == IF darcs.copy = 0 THEN {"original"} ELSE {"original", "clone"}
ListRef(obj) == IF obj = "original" THEN darcs.orig ELSE darcs.copy
ListOf(obj) == darcs.heap[ListRef(obj)]

\* rules.clone() on the original
CallRulesClone ==
    /\ args.calls < MaxRuleCalls
    /\ darcs.copy = 0
    /\ LET c == RulesClone(darcs.heap, darcs.orig) IN
        darcs' = [darcs EXCEPT !.heap = c.heap, !.copy = c.ref]
    /\ args' = [calls |-> args.calls + 1]
    /\ op' = "clone"
    /\ result' = Returned(Undefined)
    /\ DarcFrame

\* appendToRule(action, identity, op) on the original or the clone
CallAppendToRuleOn ==
    /\ args.calls < MaxRuleCalls
    /\ \E obj \in RulesObjects, action \in RuleActions,
          identity \in RuleIdentities, operator \in {"|", "&"} :
        /\ darcs' = [darcs EXCEPT !.heap[ListRef(obj)] =
                        AppendToRule(@, action, identity, operator)]
        /\ args' = [calls |-> args.calls + 1, on |-> obj, action |-> action,
                    identity |-> identity, op |-> operator]
    /\ op' = "appendToRule"
    /\ result' = Returned(Undefined)
    /\ DarcFrame

\* setRule(action, identity) on the original or the clone
CallSetRuleOn ==
    /\ args.calls < MaxRuleCalls
    /\ \E obj \in RulesObjects, action \in RuleActions,
          identity \in RuleIdentities :
        /\ darcs' = [darcs EXCEPT !.heap[ListRef(obj)] =
                        SetRule(@, action, identity)]
        /\ args' = [calls |-> args.calls + 1, on |-> obj, action |-> action,
                    identity |-> identity]
    /\ op' = "setRule"
    /\ result' = Returned(Undefined)
    /\ DarcFrame

\* getRule(action) on the original or the clone
CallGetRule ==
    /\ args.calls < MaxRuleCalls
    /\ \E obj \in RulesObjects, action \in RuleActions :
        /\ args' = [calls |-> args.calls + 1, on |-> obj, action |-> action]
        /\ result' = Returned(GetRule(ListOf(obj), action))
    /\ op' = "getRule"
    /\ UNCHANGED darcs
    /\ DarcFrame

NextClone ==
    \/ CallRulesClone
    \/ CallAppendToRuleOn
    \/ CallSetRuleOn
    \/ CallGetRule

SpecClone == InitClone /\ [][NextClone]_vars

\* The rules of the list for the action
RulesFor(list, action) == {i \in DOMAIN list : list[i].action = action}

\* C38: a list with at most one rule for an action stays so under
\* appendToRule and setRule; the number of rules grows, by one, only when
\* the action had no rule; getRule(action) returns the one rule with the
\* action, or undefined when there is none; clone() leaves the original as
\* it is and gives a list with the same rules, and no operation on the
\* clone changes the list of the original.
C38_OneRulePerAction ==
    [][LET obj == args'.on
           ref == IF obj = "original" THEN darcs.orig ELSE darcs.copy
           old == darcs.heap[ref]
           new == darcs'.heap[ref]
       IN
       /\ \A r \in DOMAIN darcs'.heap : \A a \in RuleActions :
            Cardinality(RulesFor(darcs'.heap[r], a)) <= 1
       /\ op' \in {"appendToRule", "setRule"} =>
            /\ Len(new) = Len(old)
                    + (IF RulesFor(old, args'.action) = {} THEN 1 ELSE 0)
            /\ Cardinality(RulesFor(new, args'.action)) = 1
            /\ darcs'.orig = darcs.orig /\ darcs'.copy = darcs.copy
            /\ obj = "clone" => darcs'.heap[darcs.orig] = darcs.heap[darcs.orig]
            /\ obj = "original" /\ darcs.copy # 0 =>
                    darcs'.heap[darcs.copy] = darcs.heap[darcs.copy]
       /\ op' = "getRule" =>
            /\ RulesFor(old, args'.action) = {} => result'.value = <<>>
            /\ \A i \in RulesFor(old, args'.action) :
                    result'.value = <<old[i]>>
       /\ op' = "clone" =>
            /\ darcs'.heap[darcs'.orig] = darcs.heap[darcs.orig]
            /\ darcs'.heap[darcs'.copy] = darcs.heap[darcs.orig]
      ]_vars

\* A rule was set on the clone and one appended to it: the original still
\* has its one rule, the clone has two
C38_Witness ==
    /\ darcs.copy # 0
    /\ op = "appendToRule"
    /\ args.on = "clone"
    /\ darcs.heap[darcs.orig] = <<[action |-> "_sign", expr |-> "ed25519:a"]>>
    /\ darcs.heap[darcs.copy] =
        <<[action |-> "_sign", expr |-> "darc:0a"],
          [action |-> "invoke:darc.evolve", expr |-> "ed25519:a"]>>
(***************************************************************************)
(* Part 14: counters, identities and signatures of a signed instruction    *)
(***************************************************************************)
\* Every instruction i has one counter, one identity and one signature for
\* each signer of group i, in the order of the group: identity j is that
\* of signer j, counter j is the one allocated to that use of the identity
\* (the ledger's counter ctrs, plus one, plus the uses before), and
\* signature j is the signature of signer j over the transaction
Aligned(instrs, sgs, ctrs) ==
    \A i \in DOMAIN instrs :
        /\ Len(instrs[i].signerCounter) = Len(sgs[i])
        /\ Len(instrs[i].signerIdentities) = Len(sgs[i])
        /\ Len(instrs[i].signatures) = Len(sgs[i])
        /\ \A j \in DOMAIN sgs[i] :
            LET k == IdentityToString(sgs[i][j]) IN
            /\ instrs[i].signerIdentities[j].ed25519 = k
            /\ instrs[i].signerCounter[j] =
                    ctrs[k] + 1 + UsesBefore(sgs, k, i, j)
            /\ SigVerify(k, TxHash(instrs), instrs[i].signatures[j])

====
